---- MODULE Spec2Model ----
(***************************************************************************)
(* Lead screening service (src/src/services/lead_screening.py) over a      *)
(* relational store reached through per-request SQLAlchemy sessions.       *)
(*                                                                         *)
(* Strings are sequences of character codes (ord), so that the digit,      *)
(* control-character and case tests are computed as the code computes      *)
(* them.  Timestamps are whole hours on a discrete clock; an absent        *)
(* timestamp (None) is NoTime.  An absent or empty string is <<>> (both    *)
(* are falsy in the code's "if not x" tests).                              *)
(***************************************************************************)
EXTENDS Integers, Sequences, FiniteSets, TLC

VARIABLES leads, convs, now, pc, loc, pending, result, log, calls, faults, untouched,
          request, session, validated

vars == <<leads, convs, now, pc, loc, pending, result, log, calls, faults, untouched,
          request, session, validated>>

(***************************************************************************)
(* Bounds of the exploration.                                              *)
(***************************************************************************)
MaxTime == 2
MaxCalls == 3
MaxConcCalls == 2
MaxFaults == 1
MaxStoredRows == 15
MaxOtherRows == 2
MaxCodeLen == 2
MaxAttempts == 2
MaxMessages == 3
MaxRequests == 1
MaxPrefixLen == 2

\* concurrent requests, each with its own scoped session
Workers == {"w1", "w2"}

(***************************************************************************)
(* Program constants.                                                      *)
(***************************************************************************)
MinPhoneDigits == 10
MaxPhoneDigits == 15
MaxTextLength == 5000
FollowupHours == 2
HistoryLimit == 10

NoTime == -1
NoLead == 0

\* LeadStatus values (src/src/models/lead.py)
NOVO == "novo"
EM_TRIAGEM == "em_triagem"
AGUARDANDO_RESPOSTA == "aguardando_resposta"
AGENDADO == "agendado"
NAO_ELEGIVEL == "nao_elegivel"
SEM_RESPOSTA == "sem_resposta"
RECUPERANDO == "recuperando"
INATIVO == "inativo"

LeadStatus ==
    {NOVO, EM_TRIAGEM, AGUARDANDO_RESPOSTA, AGENDADO, NAO_ELEGIVEL,
     SEM_RESPOSTA, RECUPERANDO, INATIVO}

(***************************************************************************)
(* Character helpers.                                                      *)
(***************************************************************************)
Rep(c, n) == [i \in 1..n |-> c]

\* the ranges of the decimal digits (category Nd): the characters that \d
\* matches in a str pattern
DigitRanges ==
    {<<48, 57>>, <<1632, 1641>>, <<1776, 1785>>, <<1984, 1993>>,
     <<2406, 2415>>, <<2534, 2543>>, <<2662, 2671>>, <<2790, 2799>>,
     <<2918, 2927>>, <<3046, 3055>>, <<3174, 3183>>, <<3302, 3311>>,
     <<3430, 3439>>, <<3558, 3567>>, <<3664, 3673>>, <<3792, 3801>>,
     <<3872, 3881>>, <<4160, 4169>>, <<4240, 4249>>, <<6112, 6121>>,
     <<6160, 6169>>, <<6470, 6479>>, <<6608, 6617>>, <<6784, 6793>>,
     <<6800, 6809>>, <<6992, 7001>>, <<7088, 7097>>, <<7232, 7241>>,
     <<7248, 7257>>, <<42528, 42537>>, <<43216, 43225>>, <<43264, 43273>>,
     <<43472, 43481>>, <<43504, 43513>>, <<43600, 43609>>, <<44016, 44025>>,
     <<65296, 65305>>, <<66720, 66729>>, <<68912, 68921>>, <<69734, 69743>>,
     <<69872, 69881>>, <<69942, 69951>>, <<70096, 70105>>, <<70384, 70393>>,
     <<70736, 70745>>, <<70864, 70873>>, <<71248, 71257>>, <<71360, 71369>>,
     <<71472, 71481>>, <<71904, 71913>>, <<72016, 72025>>, <<72784, 72793>>,
     <<73040, 73049>>, <<73120, 73129>>, <<92768, 92777>>, <<92864, 92873>>,
     <<93008, 93017>>, <<120782, 120831>>, <<123200, 123209>>,
     <<123632, 123641>>, <<125264, 125273>>, <<130032, 130041>>}

Digit == UNION {r[1]..r[2] : r \in DigitRanges}

\* a character that re.sub(r"\D", "", ...) keeps
IsDigit(c) == c \in Digit

RECURSIVE StripNonDigits(_)
StripNonDigits(s) ==
    IF s = <<>> THEN <<>>
    ELSE (IF IsDigit(Head(s)) THEN <<Head(s)>> ELSE <<>>)
         \o StripNonDigits(Tail(s))

\* str.split("@")[0]: the part before the first "@" (code 64)
RECURSIVE BeforeAt(_)
BeforeAt(s) ==
    IF s = <<>> THEN <<>>
    ELSE IF Head(s) = 64 THEN <<>>
    ELSE <<Head(s)>> \o BeforeAt(Tail(s))

validate_phone(phone) ==
    LET clean == StripNonDigits(phone) IN
    IF Len(clean) < MinPhoneDigits \/ Len(clean) > MaxPhoneDigits THEN FALSE
    ELSE IF \A i \in 1..Len(clean) : clean[i] = 48 THEN FALSE
    ELSE TRUE

\* returns <<>> for None
extrair_telefone_whatsapp(remote_jid) ==
    IF remote_jid = <<>> THEN <<>>
    ELSE LET phone == BeforeAt(remote_jid) IN
         IF validate_phone(phone) THEN phone ELSE <<>>

\* "".join(c for c in text if ord(c) >= 32 or c in "\n\t"), joined by
\* halves so that a body of thousands of characters is evaluated at a small depth
RECURSIVE DropControl(_)
DropControl(s) ==
    IF s = <<>> THEN <<>>
    ELSE IF Len(s) = 1
    THEN (IF s[1] >= 32 \/ s[1] = 10 \/ s[1] = 9 THEN s ELSE <<>>)
    ELSE DropControl(SubSeq(s, 1, Len(s) \div 2))
         \o DropControl(SubSeq(s, Len(s) \div 2 + 1, Len(s)))

\* s[:n]: the first n characters, and for a negative n all but the last -n
SliceTo(s, n) ==
    LET stop == IF n >= 0 THEN (IF Len(s) < n THEN Len(s) ELSE n)
                ELSE (IF Len(s) + n > 0 THEN Len(s) + n ELSE 0)
    IN SubSeq(s, 1, stop)

\* a sanitizer that cuts the text before it removes the control characters
sanitize_text_cut_first(text, max_length) ==
    IF text = <<>> THEN <<>>
    ELSE DropControl(SliceTo(text, max_length))

sanitize_text(text, max_length) ==
    IF text = <<>> THEN <<>>
    ELSE LET clean == DropControl(text) IN SliceTo(clean, max_length)

\* the characters whose upper case is one other character, as runs
\* <<first, last, step, offset>>: first, first + step, ... last map to
\* themselves plus offset
UpperRuns ==
    {<<97, 122, 1, -32>>, <<181, 181, 1, 743>>, <<224, 246, 1, -32>>,
     <<248, 254, 1, -32>>, <<255, 255, 1, 121>>, <<257, 303, 2, -1>>,
     <<305, 305, 1, -232>>, <<307, 311, 2, -1>>, <<314, 328, 2, -1>>,
     <<331, 375, 2, -1>>, <<378, 382, 2, -1>>, <<383, 383, 1, -300>>,
     <<384, 384, 1, 195>>, <<387, 389, 2, -1>>, <<392, 392, 1, -1>>,
     <<396, 396, 1, -1>>, <<402, 402, 1, -1>>, <<405, 405, 1, 97>>,
     <<409, 409, 1, -1>>, <<410, 410, 1, 163>>, <<414, 414, 1, 130>>,
     <<417, 421, 2, -1>>, <<424, 424, 1, -1>>, <<429, 429, 1, -1>>,
     <<432, 432, 1, -1>>, <<436, 438, 2, -1>>, <<441, 441, 1, -1>>,
     <<445, 445, 1, -1>>, <<447, 447, 1, 56>>, <<453, 453, 1, -1>>,
     <<454, 454, 1, -2>>, <<456, 456, 1, -1>>, <<457, 457, 1, -2>>,
     <<459, 459, 1, -1>>, <<460, 460, 1, -2>>, <<462, 476, 2, -1>>,
     <<477, 477, 1, -79>>, <<479, 495, 2, -1>>, <<498, 498, 1, -1>>,
     <<499, 499, 1, -2>>, <<501, 501, 1, -1>>, <<505, 543, 2, -1>>,
     <<547, 563, 2, -1>>, <<572, 572, 1, -1>>, <<575, 576, 1, 10815>>,
     <<578, 578, 1, -1>>, <<583, 591, 2, -1>>, <<592, 592, 1, 10783>>,
     <<593, 593, 1, 10780>>, <<594, 594, 1, 10782>>, <<595, 595, 1, -210>>,
     <<596, 596, 1, -206>>, <<598, 599, 1, -205>>, <<601, 601, 1, -202>>,
     <<603, 603, 1, -203>>, <<604, 604, 1, 42319>>, <<608, 608, 1, -205>>,
     <<609, 609, 1, 42315>>, <<611, 611, 1, -207>>, <<613, 613, 1, 42280>>,
     <<614, 614, 1, 42308>>, <<616, 616, 1, -209>>, <<617, 617, 1, -211>>,
     <<618, 618, 1, 42308>>, <<619, 619, 1, 10743>>, <<620, 620, 1, 42305>>,
     <<623, 623, 1, -211>>, <<625, 625, 1, 10749>>, <<626, 626, 1, -213>>,
     <<629, 629, 1, -214>>, <<637, 637, 1, 10727>>, <<640, 640, 1, -218>>,
     <<642, 642, 1, 42307>>, <<643, 643, 1, -218>>, <<647, 647, 1, 42282>>,
     <<648, 648, 1, -218>>, <<649, 649, 1, -69>>, <<650, 651, 1, -217>>,
     <<652, 652, 1, -71>>, <<658, 658, 1, -219>>, <<669, 669, 1, 42261>>,
     <<670, 670, 1, 42258>>, <<837, 837, 1, 84>>, <<881, 883, 2, -1>>,
     <<887, 887, 1, -1>>, <<891, 893, 1, 130>>, <<940, 940, 1, -38>>,
     <<941, 943, 1, -37>>, <<945, 961, 1, -32>>, <<962, 962, 1, -31>>,
     <<963, 971, 1, -32>>, <<972, 972, 1, -64>>, <<973, 974, 1, -63>>,
     <<976, 976, 1, -62>>, <<977, 977, 1, -57>>, <<981, 981, 1, -47>>,
     <<982, 982, 1, -54>>, <<983, 983, 1, -8>>, <<985, 1007, 2, -1>>,
     <<1008, 1008, 1, -86>>, <<1009, 1009, 1, -80>>, <<1010, 1010, 1, 7>>,
     <<1011, 1011, 1, -116>>, <<1013, 1013, 1, -96>>, <<1016, 1016, 1, -1>>,
     <<1019, 1019, 1, -1>>, <<1072, 1103, 1, -32>>, <<1104, 1119, 1, -80>>,
     <<1121, 1153, 2, -1>>, <<1163, 1215, 2, -1>>, <<1218, 1230, 2, -1>>,
     <<1231, 1231, 1, -15>>, <<1233, 1327, 2, -1>>, <<1377, 1414, 1, -48>>,
     <<4304, 4346, 1, 3008>>, <<4349, 4351, 1, 3008>>,
     <<5112, 5117, 1, -8>>, <<7296, 7296, 1, -6254>>,
     <<7297, 7297, 1, -6253>>, <<7298, 7298, 1, -6244>>,
     <<7299, 7300, 1, -6242>>, <<7301, 7301, 1, -6243>>,
     <<7302, 7302, 1, -6236>>, <<7303, 7303, 1, -6181>>,
     <<7304, 7304, 1, 35266>>, <<7545, 7545, 1, 35332>>,
     <<7549, 7549, 1, 3814>>, <<7566, 7566, 1, 35384>>,
     <<7681, 7829, 2, -1>>, <<7835, 7835, 1, -59>>, <<7841, 7935, 2, -1>>,
     <<7936, 7943, 1, 8>>, <<7952, 7957, 1, 8>>, <<7968, 7975, 1, 8>>,
     <<7984, 7991, 1, 8>>, <<8000, 8005, 1, 8>>, <<8017, 8023, 2, 8>>,
     <<8032, 8039, 1, 8>>, <<8048, 8049, 1, 74>>, <<8050, 8053, 1, 86>>,
     <<8054, 8055, 1, 100>>, <<8056, 8057, 1, 128>>, <<8058, 8059, 1, 112>>,
     <<8060, 8061, 1, 126>>, <<8112, 8113, 1, 8>>, <<8126, 8126, 1, -7205>>,
     <<8144, 8145, 1, 8>>, <<8160, 8161, 1, 8>>, <<8165, 8165, 1, 7>>,
     <<8526, 8526, 1, -28>>, <<8560, 8575, 1, -16>>, <<8580, 8580, 1, -1>>,
     <<9424, 9449, 1, -26>>, <<11312, 11359, 1, -48>>,
     <<11361, 11361, 1, -1>>, <<11365, 11365, 1, -10795>>,
     <<11366, 11366, 1, -10792>>, <<11368, 11372, 2, -1>>,
     <<11379, 11379, 1, -1>>, <<11382, 11382, 1, -1>>,
     <<11393, 11491, 2, -1>>, <<11500, 11502, 2, -1>>,
     <<11507, 11507, 1, -1>>, <<11520, 11557, 1, -7264>>,
     <<11559, 11559, 1, -7264>>, <<11565, 11565, 1, -7264>>,
     <<42561, 42605, 2, -1>>, <<42625, 42651, 2, -1>>,
     <<42787, 42799, 2, -1>>, <<42803, 42863, 2, -1>>,
     <<42874, 42876, 2, -1>>, <<42879, 42887, 2, -1>>,
     <<42892, 42892, 1, -1>>, <<42897, 42899, 2, -1>>,
     <<42900, 42900, 1, 48>>, <<42903, 42921, 2, -1>>,
     <<42933, 42947, 2, -1>>, <<42952, 42954, 2, -1>>,
     <<42961, 42961, 1, -1>>, <<42967, 42969, 2, -1>>,
     <<42998, 42998, 1, -1>>, <<43859, 43859, 1, -928>>,
     <<43888, 43967, 1, -38864>>, <<65345, 65370, 1, -32>>,
     <<66600, 66639, 1, -40>>, <<66776, 66811, 1, -40>>,
     <<66967, 67003, 2, -39>>, <<66968, 66976, 2, -39>>,
     <<66980, 66992, 2, -39>>, <<66996, 67000, 2, -39>>,
     <<67004, 67004, 1, -39>>, <<68800, 68850, 1, -64>>,
     <<71872, 71903, 1, -32>>, <<93792, 93823, 1, -32>>,
     <<125218, 125251, 1, -34>>}

\* the characters whose upper case is more than one character
UpperSpecial ==
    {<<223, <<83, 83>>>>, <<329, <<700, 78>>>>, <<496, <<74, 780>>>>,
     <<912, <<921, 776, 769>>>>, <<944, <<933, 776, 769>>>>,
     <<1415, <<1333, 1362>>>>, <<7830, <<72, 817>>>>, <<7831, <<84, 776>>>>,
     <<7832, <<87, 778>>>>, <<7833, <<89, 778>>>>, <<7834, <<65, 702>>>>,
     <<8016, <<933, 787>>>>, <<8018, <<933, 787, 768>>>>,
     <<8020, <<933, 787, 769>>>>, <<8022, <<933, 787, 834>>>>,
     <<8064, <<7944, 921>>>>, <<8065, <<7945, 921>>>>,
     <<8066, <<7946, 921>>>>, <<8067, <<7947, 921>>>>,
     <<8068, <<7948, 921>>>>, <<8069, <<7949, 921>>>>,
     <<8070, <<7950, 921>>>>, <<8071, <<7951, 921>>>>,
     <<8072, <<7944, 921>>>>, <<8073, <<7945, 921>>>>,
     <<8074, <<7946, 921>>>>, <<8075, <<7947, 921>>>>,
     <<8076, <<7948, 921>>>>, <<8077, <<7949, 921>>>>,
     <<8078, <<7950, 921>>>>, <<8079, <<7951, 921>>>>,
     <<8080, <<7976, 921>>>>, <<8081, <<7977, 921>>>>,
     <<8082, <<7978, 921>>>>, <<8083, <<7979, 921>>>>,
     <<8084, <<7980, 921>>>>, <<8085, <<7981, 921>>>>,
     <<8086, <<7982, 921>>>>, <<8087, <<7983, 921>>>>,
     <<8088, <<7976, 921>>>>, <<8089, <<7977, 921>>>>,
     <<8090, <<7978, 921>>>>, <<8091, <<7979, 921>>>>,
     <<8092, <<7980, 921>>>>, <<8093, <<7981, 921>>>>,
     <<8094, <<7982, 921>>>>, <<8095, <<7983, 921>>>>,
     <<8096, <<8040, 921>>>>, <<8097, <<8041, 921>>>>,
     <<8098, <<8042, 921>>>>, <<8099, <<8043, 921>>>>,
     <<8100, <<8044, 921>>>>, <<8101, <<8045, 921>>>>,
     <<8102, <<8046, 921>>>>, <<8103, <<8047, 921>>>>,
     <<8104, <<8040, 921>>>>, <<8105, <<8041, 921>>>>,
     <<8106, <<8042, 921>>>>, <<8107, <<8043, 921>>>>,
     <<8108, <<8044, 921>>>>, <<8109, <<8045, 921>>>>,
     <<8110, <<8046, 921>>>>, <<8111, <<8047, 921>>>>,
     <<8114, <<8122, 921>>>>, <<8115, <<913, 921>>>>,
     <<8116, <<902, 921>>>>, <<8118, <<913, 834>>>>,
     <<8119, <<913, 834, 921>>>>, <<8124, <<913, 921>>>>,
     <<8130, <<8138, 921>>>>, <<8131, <<919, 921>>>>,
     <<8132, <<905, 921>>>>, <<8134, <<919, 834>>>>,
     <<8135, <<919, 834, 921>>>>, <<8140, <<919, 921>>>>,
     <<8146, <<921, 776, 768>>>>, <<8147, <<921, 776, 769>>>>,
     <<8150, <<921, 834>>>>, <<8151, <<921, 776, 834>>>>,
     <<8162, <<933, 776, 768>>>>, <<8163, <<933, 776, 769>>>>,
     <<8164, <<929, 787>>>>, <<8166, <<933, 834>>>>,
     <<8167, <<933, 776, 834>>>>, <<8178, <<8186, 921>>>>,
     <<8179, <<937, 921>>>>, <<8180, <<911, 921>>>>, <<8182, <<937, 834>>>>,
     <<8183, <<937, 834, 921>>>>, <<8188, <<937, 921>>>>,
     <<64256, <<70, 70>>>>, <<64257, <<70, 73>>>>, <<64258, <<70, 76>>>>,
     <<64259, <<70, 70, 73>>>>, <<64260, <<70, 70, 76>>>>,
     <<64261, <<83, 84>>>>, <<64262, <<83, 84>>>>,
     <<64275, <<1348, 1350>>>>, <<64276, <<1348, 1333>>>>,
     <<64277, <<1348, 1339>>>>, <<64278, <<1358, 1350>>>>,
     <<64279, <<1348, 1341>>>>}

\* the characters of a run
RunChars(r) == {r[1] + k * r[3] : k \in 0..((r[2] - r[1]) \div r[3])}

\* the upper case of the characters that have one other than themselves
UpperMap ==
    [c \in UNION {RunChars(r) : r \in UpperRuns} \cup {p[1] : p \in UpperSpecial} |->
        IF \E p \in UpperSpecial : p[1] = c
        THEN (CHOOSE p \in UpperSpecial : p[1] = c)[2]
        ELSE <<c + (CHOOSE r \in UpperRuns : c \in RunChars(r))[4]>>]

\* str.upper() of one character
Upper(c) == IF c \in DOMAIN UpperMap THEN UpperMap[c] ELSE <<c>>

\* str.upper()
RECURSIVE UpperStr(_)
UpperStr(s) ==
    IF s = <<>> THEN <<>>
    ELSE Upper(Head(s)) \o UpperStr(Tail(s))

\* settings.eligible_regions = "RS,SC,PR,SP,RJ,MG,ES,GO,MT,MS,DF"
eligible_regions ==
    {<<82, 83>>, <<83, 67>>, <<80, 82>>, <<83, 80>>, <<82, 74>>, <<77, 71>>,
     <<69, 83>>, <<71, 79>>, <<77, 84>>, <<77, 83>>, <<68, 70>>}

\* check_eligibility that compares the code as written
check_eligibility_exact(lead_region, regions) == lead_region \in regions

\* lines 176-179: region_upper is None for a falsy region, and None is in
\* no list of codes
check_eligibility(lead_region, regions) ==
    /\ lead_region # <<>>
    /\ UpperStr(lead_region) \in {UpperStr(r) : r \in regions}

\* settings.interest_regions = "BA,PE,CE,RN,PB,AL,SE,PI,MA,AP,AM,RR,AC,TO"
interest_regions ==
    {<<66, 65>>, <<80, 69>>, <<67, 69>>, <<82, 78>>, <<80, 66>>, <<65, 76>>,
     <<83, 69>>, <<80, 73>>, <<77, 65>>, <<65, 80>>, <<65, 77>>, <<82, 82>>,
     <<65, 67>>, <<84, 79>>}

\* RegionalValidator.is_eligible that compares the code as written
validator_is_eligible_exact(region_code) ==
    IF region_code = <<>> THEN FALSE
    ELSE region_code \in eligible_regions

\* RegionalValidator.is_eligible
validator_is_eligible(region_code) ==
    IF region_code = <<>> THEN FALSE
    ELSE UpperStr(region_code) \in {UpperStr(r) : r \in eligible_regions}

\* RegionalValidator.is_interest_region
is_interest_region(region_code) ==
    IF region_code = <<>> THEN FALSE
    ELSE UpperStr(region_code) \in {UpperStr(r) : r \in interest_regions}

\* RegionalValidator.get_region_status: the status of the returned pair
get_region_status(region_code) ==
    IF region_code = <<>> THEN "unknown"
    ELSE IF validator_is_eligible(region_code) THEN "eligible"
    ELSE IF is_interest_region(region_code) THEN "interest"
    ELSE "unknown"

(***************************************************************************)
(* Inputs.                                                                 *)
(***************************************************************************)
KPlain == Rep(57, 10)
KJid == Rep(57, 10) \o <<64, 115>>
KSep == Rep(57, 5) \o <<45>> \o Rep(57, 5)
KShort == Rep(57, 9)
KLong == Rep(57, 16)
KZeros == Rep(48, 11)
KEmpty == <<>>
\* eleven ARABIC-INDIC DIGIT ZERO (U+0660)
KArabicZeros == Rep(1632, 11)

Keys == {KPlain, KJid, KSep, KShort, KLong, KZeros, KEmpty, KArabicZeros}

\* the keys of the calls that are mixed with the other operations: a plain
\* key, a key with the same digits and a separator, an invalid key
CallKeys == {KPlain, KSep, KShort}

\* "R\x07S": a control character inside a text that names the state "RS"
Texts == {<<82, 7, 83>>}

Replies == {<<82>>}

\* "RS", "rs", "BA" and "r" with the LATIN SMALL LETTER LONG S (U+017F)
\* "RS", "rs", "BA", "r" with the long s (U+017F), "SP"
Regions == {<<82, 83>>, <<114, 115>>, <<66, 65>>, <<114, 383>>, <<83, 80>>}

\* the region codes written while calls are made: "RS" and "BA"
CallRegions == {<<82, 83>>, <<66, 65>>}


LeadIds == {1, 2}

\* the leads whose region other transactions write while calls are made
WrittenLeads == {1}

(***************************************************************************)
(* Rows.                                                                   *)
(***************************************************************************)
NewLead(phone, t_contato, t_flush) ==
    [phone |-> phone, status |-> NOVO, elegivel |-> "None", regiao |-> <<>>,
     tentativas_follow_up |-> 0, data_ultimo_follow_up |-> NoTime,
     data_proximo_follow_up |-> NoTime, data_contato |-> t_contato,
     data_ultima_interacao |-> t_flush]

NoRow == NewLead(<<>>, NoTime, NoTime)

NewConversation(lead_id, entrada, saida, t_flush) ==
    [lead_id |-> lead_id, mensagem_entrada |-> entrada, mensagem_saida |-> saida,
     timestamp |-> t_flush]

(***************************************************************************)
(* Session: units of work recorded by attribute writes and db.add, applied *)
(* to the store by commit, and an identity map of the loaded objects.      *)
(***************************************************************************)
Write(op, id, s, t, a, b) == [op |-> op, id |-> id, s |-> s, t |-> t, a |-> a, b |-> b]

InsertLead(phone, t) == Write("insert_lead", NoLead, "", t, phone, <<>>)
SetStatus(id, s) == Write("set_status", id, s, NoTime, <<>>, <<>>)
SetElegivel(id, e) == Write("set_elegivel", id, e, NoTime, <<>>, <<>>)
SetInteracao(id, t) == Write("set_interacao", id, "", t, <<>>, <<>>)
SetFollowup(id, t) == Write("set_followup", id, "", t, <<>>, <<>>)
InsertConv(id, entrada, saida) == Write("insert_conv", id, "", NoTime, entrada, saida)
IncAttempts(id, t) == Write("inc_attempts", id, "", t, <<>>, <<>>)

\* an increment that counts the attempt twice
increment_followup_attempts_twice(row, t) ==
    [row EXCEPT !.tentativas_follow_up = @ + 2, !.data_ultimo_follow_up = t]

\* Lead.increment_followup_attempts at time t
increment_followup_attempts(row, t) ==
    [row EXCEPT !.tentativas_follow_up = @ + 1, !.data_ultimo_follow_up = t]

ApplyLeadOp(L, o, t) ==
    CASE o.op = "insert_lead" -> Append(L, NewLead(o.a, o.t, t))
      [] o.op = "set_status" -> [L EXCEPT ![o.id].status = o.s]
      [] o.op = "set_elegivel" -> [L EXCEPT ![o.id].elegivel = o.s]
      [] o.op = "set_interacao" -> [L EXCEPT ![o.id].data_ultima_interacao = o.t]
      [] o.op = "set_followup" -> [L EXCEPT ![o.id].data_proximo_follow_up = o.t]
      [] o.op = "inc_attempts" -> [L EXCEPT ![o.id] = increment_followup_attempts(@, o.t)]
      [] OTHER -> L

RECURSIVE ApplyLeads(_, _, _)
ApplyLeads(L, ops, t) ==
    IF ops = <<>> THEN L
    ELSE ApplyLeads(ApplyLeadOp(L, Head(ops), t), Tail(ops), t)

RECURSIVE ApplyConvs(_, _, _)
ApplyConvs(C, ops, t) ==
    IF ops = <<>> THEN C
    ELSE ApplyConvs(
            IF Head(ops).op = "insert_conv"
            THEN Append(C, NewConversation(Head(ops).id, Head(ops).a, Head(ops).b, t))
            ELSE C,
            Tail(ops), t)

\* unique=True on leads.phone
IntegrityViolation(L, ops) ==
    \E i \in 1..Len(ops) :
        /\ ops[i].op = "insert_lead"
        /\ \E j \in 1..Len(L) : L[j].phone = ops[i].a

\* a session as a request gets it: no object loaded, no failed flush
NewSession == [cache |-> {}, inactive |-> FALSE]

\* the Lead object of id is in the identity map of the session, loaded
Loaded(w, id) == \E e \in session[w].cache : e.id = id

\* its attributes, as they were loaded and as the session has written them
Object(w, id) == (CHOOSE e \in session[w].cache : e.id = id).row

\* the identity map c with the object of id holding row
Remember(c, id, row) == {e \in c : e.id # id} \cup {[id |-> id, row |-> row]}

\* the rows as a statement of the session's transaction finds them: the
\* store plus its own flushed writes
Flushed(w) == ApplyLeads(leads, pending[w], now)

\* the leads as the queries of the session return them: an object that is
\* loaded is returned as it is, without its row being read again
View(w) ==
    [i \in 1..Len(Flushed(w)) |-> IF Loaded(w, i) THEN Object(w, i) ELSE Flushed(w)[i]]

\* the object row after the attribute write o
Written(row, o) == ApplyLeadOp(<<row>>, [o EXCEPT !.id = 1], NoTime)[1]

RECURSIVE WrittenAll(_, _)
WrittenAll(row, ops) ==
    IF ops = <<>> THEN row
    ELSE WrittenAll(Written(row, Head(ops)), Tail(ops))

\* the writes among ops that the unit of work records for the object row: a
\* status or a flag set to the value the object holds is no change and
\* gives no UPDATE; a timestamp is the one of a new instant
RECURSIVE Recorded(_, _)
Recorded(row, ops) ==
    IF ops = <<>> THEN <<>>
    ELSE (IF /\ Head(ops).op \in {"set_status", "set_elegivel"}
             /\ Written(row, Head(ops)) = row
          THEN <<>> ELSE <<Head(ops)>>)
         \o Recorded(Written(row, Head(ops)), Tail(ops))

\* query(Lead).filter(Lead.phone == phone).first()
FindByPhone(L, phone) ==
    IF \E i \in 1..Len(L) : L[i].phone = phone
    THEN CHOOSE i \in 1..Len(L) :
            /\ L[i].phone = phone
            /\ \A j \in 1..Len(L) : L[j].phone = phone => i <= j
    ELSE NoLead

\* query(Lead).filter(Lead.id == lead_id).first()
FindById(L, id) == IF id \in 1..Len(L) THEN id ELSE NoLead

RECURSIVE ConvsOf(_, _)
ConvsOf(C, lead_id) ==
    IF C = <<>> THEN <<>>
    ELSE (IF Head(C).lead_id = lead_id THEN <<Head(C)>> ELSE <<>>)
         \o ConvsOf(Tail(C), lead_id)

RECURSIVE Turns(_)
Turns(rows) ==
    IF rows = <<>> THEN <<>>
    ELSE <<[role |-> "user", content |-> Head(rows).mensagem_entrada],
           [role |-> "assistant", content |-> Head(rows).mensagem_saida]>>
         \o Turns(Tail(rows))

\* order_by(Conversation.timestamp): ascending; rows of one timestamp stay
\* in the order of their insertion
OrderByTimestamp(rows) ==
    LET before(i) == {j \in 1..Len(rows) :
                         \/ rows[j].timestamp < rows[i].timestamp
                         \/ rows[j].timestamp = rows[i].timestamp /\ j < i}
    IN [p \in 1..Len(rows) |->
           rows[CHOOSE i \in 1..Len(rows) : Cardinality(before(i)) = p - 1]]

\* query(Conversation).filter(lead_id).order_by(timestamp).limit(10).all()
\* and the loop of lines 239-248
build_conversation_history(C, lead_id) ==
    LET rows == OrderByTimestamp(ConvsOf(C, lead_id)) IN
    Turns(SubSeq(rows, 1, IF Len(rows) < HistoryLimit THEN Len(rows) ELSE HistoryLimit))

(***************************************************************************)
(* Results and call-local state.                                           *)
(***************************************************************************)
NoResult ==
    [success |-> FALSE, error |-> "", raised |-> FALSE, response |-> <<>>,
     is_eligible |-> FALSE]

\* the normal return of an operation
Returned(success, error, response, is_eligible) ==
    [success |-> success, error |-> error, raised |-> FALSE,
     response |-> response, is_eligible |-> is_eligible]

\* except Exception as e: return {"success": False, "error": str(e)}
OnException(e) == Returned(FALSE, e, <<>>, FALSE)

\* a handler that reports the failed call as done
OnMarkException_true(e) == Returned(TRUE, e, <<>>, FALSE)

\* except Exception: return False
OnMarkException(e) == Returned(FALSE, e, <<>>, FALSE)

\* a try block that begins after the query of the operation
TryBlock_late(op) ==
    IF op = "receive" THEN 64..125
    ELSE IF op = "validate" THEN 146..188
    ELSE 209..218

\* the lines of the try block of an operation: receive_lead_message,
\* validate_lead_eligibility, mark_lead_for_response
TryBlock(op) ==
    IF op = "receive" THEN 49..125
    ELSE IF op = "validate" THEN 144..188
    ELSE 207..218

\* the exception e is raised at a line of an operation: the handler of the
\* try block that holds the line makes it the result of the call; raised at
\* a line outside the block it leaves the operation
Raise(op, line, e) ==
    IF line \notin TryBlock(op) THEN [NoResult EXCEPT !.raised = TRUE, !.error = e]
    ELSE IF op = "mark" THEN OnMarkException(e)
    ELSE OnException(e)

Idle ==
    [op |-> "", jid |-> <<>>, raw |-> <<>>, text |-> <<>>, phone |-> <<>>, lead |-> NoLead,
     created |-> FALSE, history |-> <<>>, reply |-> <<>>, start |-> NoTime,
     before |-> NoRow, convs0 |-> <<>>, leads0 |-> <<>>,
     nTrans |-> 0, nFup |-> 0, eligible |-> FALSE, old |-> "", fault |-> "",
     log0 |-> 0, code |-> <<>>, region_status |-> "", read_failed |-> FALSE,
     region |-> <<>>]

\* no webhook request is being handled
NoRequest ==
    [state |-> "none", header |-> <<>>, body |-> "", event |-> "",
     messages |-> <<>>, pos |-> 0, code |-> 0,
     leads0 |-> <<>>, convs0 |-> <<>>, n |-> 0]

\* no lead is being watched
NoWatch == [lead |-> NoLead, row |-> NoRow, created |-> FALSE]

Quiet == \A w \in Workers : pc[w] = "idle"

Init ==
    /\ leads = <<>>
    /\ convs = <<>>
    /\ now = 0
    /\ pc = [w \in Workers |-> "idle"]
    /\ loc = [w \in Workers |-> Idle]
    /\ pending = [w \in Workers |-> <<>>]
    /\ result = [w \in Workers |-> NoResult]
    /\ log = <<>>
    /\ calls = 0
    /\ faults = 0
    /\ untouched = [w \in Workers |-> NoWatch]
    /\ request = [w \in Workers |-> NoRequest]
    /\ session = [w \in Workers |-> NewSession]
    /\ validated = [w \in Workers |-> [last |-> NoLead, written |-> FALSE]]

\* the call returns r to its caller
Return(w, r) ==
    /\ pc' = [pc EXCEPT ![w] = "done"]
    /\ result' = [result EXCEPT ![w] = r]

\* the call ends with the failure e: an early failure return, or an
\* exception that the handler of the operation turns into its result r
Fail(w, e, r) ==
    /\ Return(w, r)
    /\ loc' = [loc EXCEPT ![w].fault = e]

\* operations on a lead end the watch on it
Forget(id) == [w \in Workers |-> IF untouched[w].lead = id THEN NoWatch ELSE untouched[w]]

Goto(w, label) ==
    /\ pc' = [pc EXCEPT ![w] = label]
    /\ UNCHANGED result

\* the statement runs
NoFault == faults' = faults

\* the statement raises: the store, or the connection to it, fails
Fault ==
    /\ faults < MaxFaults
    /\ faults' = faults + 1

\* a query returns the lead id: the object of the identity map, loaded from
\* the row if it was not
Query(w, id) ==
    session' = [session EXCEPT ![w].cache = Remember(@, id, View(w)[id])]

\* the attribute writes ops on the lead id that a query has returned
SetAttrs(w, id, ops) ==
    /\ pending' = [pending EXCEPT ![w] = @ \o Recorded(View(w)[id], ops)]
    /\ session' = [session EXCEPT ![w].cache = Remember(@, id, WrittenAll(View(w)[id], ops))]

\* a flush raises: the transaction is rolled back and the session stays
\* inactive, since the service calls no rollback()
FlushFails(w) ==
    /\ pending' = [pending EXCEPT ![w] = <<>>]
    /\ session' = [session EXCEPT ![w] = [cache |-> {}, inactive |-> TRUE]]

\* after a commit every object of the session is expired
Expired(w) == session' = [session EXCEPT ![w].cache = {}]

\* db.commit() succeeds: the unit of work ops reaches the store
CommitOk(w, ops) ==
    /\ ~IntegrityViolation(leads, ops)
    /\ leads' = ApplyLeads(leads, ops, now)
    /\ convs' = ApplyConvs(convs, ops, now)
    /\ pending' = [pending EXCEPT ![w] = <<>>]

\* db.commit() raises e in its flush: the transaction is rolled back, the
\* objects are expired and the session stays inactive, since the service
\* calls no rollback()
CommitFails(w, ops, e) ==
    /\ \/ e = "integrity" /\ IntegrityViolation(leads, ops) /\ NoFault
       \/ e = "storage" /\ ~IntegrityViolation(leads, ops) /\ Fault
    /\ FlushFails(w)
    /\ UNCHANGED <<leads, convs>>

CommitErrors == {"integrity", "storage"}

\* a transition log that records nothing
log_lead_status_change_silent(lead_id, old_status, new_status) == log' = log

log_lead_status_change(lead_id, old_status, new_status) ==
    log' = Append(log, [lead_id |-> lead_id, old_status |-> old_status,
                        new_status |-> new_status])

\* mark_for_followup that forgets the delay
mark_for_followup_nodelay(id, hours_from_now, t) == SetFollowup(id, t)

\* mark_for_followup that counts an attempt instead of setting the deadline
mark_for_followup_counting(id, hours_from_now, t) == IncAttempts(id, t)

\* Lead.mark_for_followup at time t
mark_for_followup(id, hours_from_now, t) == SetFollowup(id, t + hours_from_now)

(***************************************************************************)
(* LeadScreening.receive_lead_message, one action per store interaction.   *)
(***************************************************************************)
\* a status test that takes every lead for a new one
IsNovo_always(status) == TRUE

\* line 77: lead.status == LeadStatus.NOVO
IsNovo(status) == status = NOVO

\* lines 51-63 and, for a lead the query finds, the test and the write of
\* lines 77-79; the query first flushes the writes that an earlier call has
\* left on the session
ReceiveBegin(w, jid, text) ==
    /\ pc[w] = "idle"
    /\ calls < MaxCalls
    /\ calls' = calls + 1
    /\ LET phone == extrair_telefone_whatsapp(jid)
           clean == sanitize_text(text, MaxTextLength)
           id == FindByPhone(Flushed(w), phone)
           call == [Idle EXCEPT !.op = "receive", !.jid = jid, !.raw = text, !.text = clean,
                                !.phone = phone, !.start = now,
                                !.convs0 = convs, !.leads0 = leads, !.log0 = Len(log)]
       IN IF phone = <<>>
          THEN /\ Return(w, Returned(FALSE, "invalid_phone", <<>>, FALSE))
               /\ loc' = [loc EXCEPT ![w] = [call EXCEPT !.fault = "invalid_phone"]]
               /\ NoFault
               /\ UNCHANGED <<pending, untouched, session>>
          ELSE IF session[w].inactive
          THEN /\ Return(w, Raise("receive", 63, "pending_rollback"))
               /\ loc' = [loc EXCEPT ![w] = [call EXCEPT !.fault = "pending_rollback"]]
               /\ NoFault
               /\ UNCHANGED <<pending, untouched, session>>
          ELSE \/ /\ Fault
                  /\ Return(w, Raise("receive", 63, "read"))
                  /\ loc' = [loc EXCEPT ![w] = [call EXCEPT !.fault = "read"]]
                  /\ UNCHANGED <<pending, untouched, session>>
               \/ /\ pending[w] # <<>>
                  /\ Fault
                  /\ FlushFails(w)
                  /\ Return(w, Raise("receive", 63, "flush"))
                  /\ loc' = [loc EXCEPT ![w] = [call EXCEPT !.fault = "flush"]]
                  /\ UNCHANGED untouched
               \/ /\ NoFault
                  /\ IF id = NoLead
                     THEN /\ Goto(w, "rcv_create")
                          /\ loc' = [loc EXCEPT ![w] = call]
                          /\ pending' = [pending EXCEPT ![w] = Append(@, InsertLead(phone, now))]
                          /\ UNCHANGED <<untouched, session>>
                     ELSE IF IsNovo(View(w)[id].status)
                     THEN /\ Goto(w, "rcv_triagem")
                          /\ loc' = [loc EXCEPT ![w] = [call EXCEPT !.lead = id, !.old = NOVO]]
                          /\ SetAttrs(w, id, <<SetStatus(id, EM_TRIAGEM)>>)
                          /\ untouched' = Forget(id)
                     ELSE /\ Goto(w, "rcv_touch")
                          /\ loc' = [loc EXCEPT ![w] = [call EXCEPT !.lead = id]]
                          /\ Query(w, id)
                          /\ untouched' = Forget(id)
                          /\ UNCHANGED pending
    /\ UNCHANGED <<leads, convs, now, log, request, validated>>

\* lines 72-73: db.add(lead); db.commit()
RcvCreate(w) ==
    /\ pc[w] = "rcv_create"
    /\ \/ /\ CommitOk(w, pending[w])
          /\ Expired(w)
          /\ NoFault
          /\ Goto(w, "rcv_status")
          /\ loc' = [loc EXCEPT ![w].lead = Len(leads'), ![w].created = TRUE]
       \/ \E e \in CommitErrors : CommitFails(w, pending[w], e) /\ Fail(w, e, Raise("receive", 73, e))
    /\ UNCHANGED <<now, log, calls, untouched, request, validated>>

\* lines 74-79 without the advance out of NOVO
RcvStatus_skip(w) ==
    /\ pc[w] = "rcv_status"
    /\ Goto(w, "rcv_touch")
    /\ Query(w, loc[w].lead)
    /\ UNCHANGED <<leads, convs, now, loc, pending, log, calls, faults, untouched, request, validated>>

\* lines 74-79 for the lead just created: str(lead.id) loads the expired
\* object again, or raises; then the test and the write of lines 77-79
RcvStatus(w) ==
    /\ pc[w] = "rcv_status"
    /\ \/ /\ NoFault
          /\ IF IsNovo(View(w)[loc[w].lead].status)
             THEN /\ Goto(w, "rcv_triagem")
                  /\ loc' = [loc EXCEPT ![w].old = NOVO]
                  /\ SetAttrs(w, loc[w].lead, <<SetStatus(loc[w].lead, EM_TRIAGEM)>>)
             ELSE /\ Goto(w, "rcv_touch")
                  /\ Query(w, loc[w].lead)
                  /\ UNCHANGED <<loc, pending>>
       \/ /\ Fault
          /\ Fail(w, "read", Raise("receive", 74, "read"))
          /\ UNCHANGED <<pending, session>>
    /\ UNCHANGED <<leads, convs, now, log, calls, untouched, request, validated>>

\* line 80: db.commit()
RcvTriagem(w) ==
    /\ pc[w] = "rcv_triagem"
    /\ \/ /\ CommitOk(w, pending[w])
          /\ Expired(w)
          /\ NoFault
          /\ Goto(w, "rcv_triagem_log")
          /\ loc' = [loc EXCEPT ![w].nTrans = @ + 1]
       \/ \E e \in CommitErrors : CommitFails(w, pending[w], e) /\ Fail(w, e, Raise("receive", 80, e))
    /\ UNCHANGED <<now, log, calls, untouched, request, validated>>

\* line 81: log_lead_status_change(str(lead.id), ...), where str(lead.id)
\* loads the expired object from its row as it is by then, or raises before
\* the transition is logged
RcvTriagemLog(w) ==
    /\ pc[w] = "rcv_triagem_log"
    /\ \/ /\ NoFault
          /\ Query(w, loc[w].lead)
          /\ log_lead_status_change(loc[w].lead, loc[w].old, EM_TRIAGEM)
          /\ Goto(w, "rcv_touch")
          /\ UNCHANGED loc
       \/ /\ Fault
          /\ Fail(w, "read", Raise("receive", 81, "read"))
          /\ UNCHANGED <<session, log>>
    /\ UNCHANGED <<leads, convs, now, pending, calls, untouched, request, validated>>

\* line 254: return []
history_on_error == <<>>

\* lines 84-87: touch the last interaction, read the history. The query of
\* the history first flushes the UPDATE of the lead; when the UPDATE or the
\* SELECT raises, lines 252-254 yield the empty history and the call goes
\* on, after a failed UPDATE on an inactive session
RcvTouch(w) ==
    /\ pc[w] = "rcv_touch"
    /\ \/ /\ NoFault
          /\ SetAttrs(w, loc[w].lead, <<SetInteracao(loc[w].lead, now)>>)
          /\ loc' = [loc EXCEPT ![w].before = leads[loc[w].lead],
                                ![w].history = build_conversation_history(convs, loc[w].lead)]
       \/ /\ Fault
          /\ \/ SetAttrs(w, loc[w].lead, <<SetInteracao(loc[w].lead, now)>>)
             \/ FlushFails(w)
          /\ loc' = [loc EXCEPT ![w].before = leads[loc[w].lead],
                                ![w].history = history_on_error,
                                ![w].read_failed = TRUE]
    /\ Goto(w, "rcv_generate")
    /\ UNCHANGED <<leads, convs, now, log, calls, untouched, request, validated>>

\* lines 90-94: the arguments of agent.generate_response are built, and
\* str(lead.id) of line 93 raises on an inactive session, whose failed flush
\* has expired the object; else generate_response returns a reply or raises
RcvGenerate(w) ==
    /\ pc[w] = "rcv_generate"
    /\ NoFault
    /\ IF session[w].inactive
       THEN /\ Fail(w, "pending_rollback", Raise("receive", 93, "pending_rollback"))
            /\ UNCHANGED untouched
       ELSE \/ /\ \E r \in Replies : loc' = [loc EXCEPT ![w].reply = r]
               /\ Goto(w, "rcv_save")
               /\ UNCHANGED untouched
            \/ /\ Fail(w, "generation", Raise("receive", 90, "generation"))
               /\ untouched' = [untouched EXCEPT ![w] =
                                  [lead |-> loc[w].lead, row |-> loc[w].before,
                                   created |-> loc[w].created]]
    /\ UNCHANGED <<leads, convs, now, pending, log, calls, request, session, validated>>

\* lines 97-108: db.add(conversation); db.commit()
RcvSave(w) ==
    /\ pc[w] = "rcv_save"
    /\ LET ops == Append(pending[w], InsertConv(loc[w].lead, loc[w].text, loc[w].reply))
       IN \/ /\ CommitOk(w, ops)
             /\ Expired(w)
             /\ NoFault
             /\ Goto(w, "rcv_followup")
             /\ UNCHANGED loc
          \/ \E e \in CommitErrors : CommitFails(w, ops, e) /\ Fail(w, e, Raise("receive", 108, e))
    /\ UNCHANGED <<now, log, calls, untouched, request, validated>>

\* lines 111-113: lead.status loads the expired object again, or raises;
\* then mark_for_followup, or the success result of lines 116-124
RcvFollowup(w) ==
    /\ pc[w] = "rcv_followup"
    /\ \/ /\ NoFault
          /\ IF View(w)[loc[w].lead].status = AGUARDANDO_RESPOSTA
             THEN /\ Goto(w, "rcv_fup_commit")
                  /\ SetAttrs(w, loc[w].lead,
                              <<mark_for_followup(loc[w].lead, FollowupHours, now)>>)
             ELSE /\ Return(w, Returned(TRUE, "", loc[w].reply, FALSE))
                  /\ Query(w, loc[w].lead)
                  /\ UNCHANGED pending
          /\ UNCHANGED loc
       \/ /\ Fault
          /\ Fail(w, "read", Raise("receive", 111, "read"))
          /\ UNCHANGED <<pending, session>>
    /\ UNCHANGED <<leads, convs, now, log, calls, untouched, request, validated>>

\* line 114: db.commit()
RcvFupCommit(w) ==
    /\ pc[w] = "rcv_fup_commit"
    /\ \/ /\ CommitOk(w, pending[w])
          /\ Expired(w)
          /\ NoFault
          /\ Goto(w, "rcv_fup_result")
          /\ loc' = [loc EXCEPT ![w].nFup = @ + 1]
       \/ \E e \in CommitErrors : CommitFails(w, pending[w], e) /\ Fail(w, e, Raise("receive", 114, e))
    /\ UNCHANGED <<now, log, calls, untouched, request, validated>>

\* lines 116-124 after the commit of line 114: str(lead.id) loads the
\* expired object from its row as it is by then, or raises
RcvFupResult(w) ==
    /\ pc[w] = "rcv_fup_result"
    /\ \/ /\ NoFault
          /\ Query(w, loc[w].lead)
          /\ Return(w, Returned(TRUE, "", loc[w].reply, FALSE))
          /\ UNCHANGED loc
       \/ /\ Fault
          /\ Fail(w, "read", Raise("receive", 118, "read"))
          /\ UNCHANGED session
    /\ UNCHANGED <<leads, convs, now, pending, log, calls, untouched, request, validated>>

(***************************************************************************)
(* LeadScreening.validate_lead_eligibility.                                *)
(***************************************************************************)
\* a region test that never finds the region missing
RegiaoAbsent_never(regiao) == FALSE

\* line 149: not lead.regiao
RegiaoAbsent(regiao) == regiao = <<>>

\* lines 145-172: query, checks, attribute writes and the transition log
ValidateBegin(w, lead_id) ==
    /\ pc[w] = "idle"
    /\ calls < MaxCalls
    /\ calls' = calls + 1
    /\ LET id == FindById(Flushed(w), lead_id)
           call == [Idle EXCEPT !.op = "validate", !.lead = lead_id, !.start = now,
                                !.convs0 = convs, !.leads0 = leads, !.log0 = Len(log)]
       IN IF session[w].inactive
          THEN /\ Return(w, Raise("validate", 145, "pending_rollback"))
               /\ loc' = [loc EXCEPT ![w] = [call EXCEPT !.fault = "pending_rollback"]]
               /\ NoFault
               /\ UNCHANGED <<pending, log, session>>
          ELSE \/ /\ Fault
                  /\ Return(w, Raise("validate", 145, "read"))
                  /\ loc' = [loc EXCEPT ![w] = [call EXCEPT !.fault = "read"]]
                  /\ UNCHANGED <<pending, log, session>>
               \/ /\ pending[w] # <<>>
                  /\ Fault
                  /\ FlushFails(w)
                  /\ Return(w, Raise("validate", 145, "flush"))
                  /\ loc' = [loc EXCEPT ![w] = [call EXCEPT !.fault = "flush"]]
                  /\ UNCHANGED log
               \/ /\ NoFault
                  /\ IF id = NoLead
                     THEN /\ Return(w, Returned(FALSE, "not_found", <<>>, FALSE))
                          /\ loc' = [loc EXCEPT ![w] = [call EXCEPT !.fault = "not_found"]]
                          /\ UNCHANGED <<pending, log, session>>
                     ELSE IF RegiaoAbsent(View(w)[id].regiao)
                     THEN /\ Return(w, Returned(FALSE, "no_region", <<>>, FALSE))
                          /\ loc' = [loc EXCEPT ![w] = [call EXCEPT !.fault = "no_region"]]
                          /\ Query(w, id)
                          /\ UNCHANGED <<pending, log>>
                     ELSE LET lead == View(w)[id]
                              is_eligible == check_eligibility(lead.regiao, eligible_regions)
                              new_status == IF is_eligible THEN AGUARDANDO_RESPOSTA
                                            ELSE NAO_ELEGIVEL
                          IN /\ Goto(w, "val_commit")
                             /\ loc' = [loc EXCEPT ![w] =
                                           [call EXCEPT !.eligible = is_eligible,
                                                        !.old = lead.status,
                                                        !.before = leads[id],
                                                        !.region = lead.regiao]]
                             /\ SetAttrs(w, id,
                                         <<SetElegivel(id, IF is_eligible THEN "True" ELSE "False"),
                                           SetStatus(id, new_status)>>)
                             /\ log_lead_status_change(lead_id, lead.status, new_status)
    /\ untouched' = Forget(lead_id)
    /\ UNCHANGED <<leads, convs, now, request, validated>>

\* line 174: db.commit()
ValidateCommit(w) ==
    /\ pc[w] = "val_commit"
    /\ \/ /\ CommitOk(w, pending[w])
          /\ Expired(w)
          /\ NoFault
          /\ Goto(w, "val_result")
          /\ loc' = [loc EXCEPT ![w].nTrans = @ + 1]
       \/ \E e \in CommitErrors : CommitFails(w, pending[w], e) /\ Fail(w, e, Raise("validate", 174, e))
    /\ UNCHANGED <<now, log, calls, untouched, request, validated>>

\* lines 176-188: the logging call reads lead.regiao and so loads the
\* expired object from its row as it is by then, or raises; then the result
ValidateResult(w) ==
    /\ pc[w] = "val_result"
    /\ \/ /\ NoFault
          /\ Query(w, loc[w].lead)
          /\ Return(w, Returned(TRUE, "", <<>>, loc[w].eligible))
          /\ UNCHANGED loc
       \/ /\ Fault
          /\ Fail(w, "read", Raise("validate", 179, "read"))
          /\ UNCHANGED session
    /\ UNCHANGED <<leads, convs, now, pending, log, calls, untouched, request, validated>>

(***************************************************************************)
(* LeadScreening.mark_lead_for_response.                                   *)
(***************************************************************************)
\* lines 208-214
MarkBegin(w, lead_id) ==
    /\ pc[w] = "idle"
    /\ calls < MaxCalls
    /\ calls' = calls + 1
    /\ LET id == FindById(Flushed(w), lead_id)
           call == [Idle EXCEPT !.op = "mark", !.lead = lead_id, !.start = now,
                                !.convs0 = convs, !.leads0 = leads, !.log0 = Len(log)]
       IN IF session[w].inactive
          THEN /\ Return(w, Raise("mark", 208, "pending_rollback"))
               /\ loc' = [loc EXCEPT ![w] = [call EXCEPT !.fault = "pending_rollback"]]
               /\ NoFault
               /\ UNCHANGED <<pending, session>>
          ELSE \/ /\ Fault
                  /\ Return(w, Raise("mark", 208, "read"))
                  /\ loc' = [loc EXCEPT ![w] = [call EXCEPT !.fault = "read"]]
                  /\ UNCHANGED <<pending, session>>
               \/ /\ pending[w] # <<>>
                  /\ Fault
                  /\ FlushFails(w)
                  /\ Return(w, Raise("mark", 208, "flush"))
                  /\ loc' = [loc EXCEPT ![w] = [call EXCEPT !.fault = "flush"]]
               \/ /\ NoFault
                  /\ IF id = NoLead
                     THEN /\ Return(w, Returned(FALSE, "not_found", <<>>, FALSE))
                          /\ loc' = [loc EXCEPT ![w] = [call EXCEPT !.fault = "not_found"]]
                          /\ UNCHANGED <<pending, session>>
                     ELSE /\ Goto(w, "mark_commit")
                          /\ loc' = [loc EXCEPT ![w] = [call EXCEPT !.old = View(w)[id].status,
                                                                    !.before = leads[id]]]
                          /\ SetAttrs(w, id, <<SetStatus(id, AGUARDANDO_RESPOSTA),
                                               mark_for_followup(id, FollowupHours, now)>>)
    /\ untouched' = Forget(lead_id)
    /\ UNCHANGED <<leads, convs, now, log, request, validated>>

\* lines 215-222: db.commit(), then the transition log
MarkCommit(w) ==
    /\ pc[w] = "mark_commit"
    /\ \/ /\ CommitOk(w, pending[w])
          /\ Expired(w)
          /\ NoFault
          /\ log_lead_status_change(loc[w].lead, loc[w].old, AGUARDANDO_RESPOSTA)
          /\ Return(w, Returned(TRUE, "", <<>>, FALSE))
          /\ loc' = [loc EXCEPT ![w].nTrans = @ + 1, ![w].nFup = @ + 1]
       \/ /\ \E e \in CommitErrors : CommitFails(w, pending[w], e) /\ Fail(w, e, Raise("mark", 215, e))
          /\ UNCHANGED log
    /\ UNCHANGED <<now, calls, untouched, request, validated>>

(***************************************************************************)
(* Environment.                                                            *)
(***************************************************************************)
\* the call has returned and the caller has read the result: the service
\* held the Lead in a local variable only, and the identity map, which holds
\* its objects weakly, has dropped it; the transaction stays as it is.
\* validated[w].last holds the lead of a successful
\* validate_lead_eligibility, during which the region of the lead was not
\* written, until the caller's next call ends
Ack(w) ==
    /\ pc[w] = "done"
    /\ pc' = [pc EXCEPT ![w] = "idle"]
    /\ loc' = [loc EXCEPT ![w] = Idle]
    /\ result' = [result EXCEPT ![w] = NoResult]
    /\ session' = [session EXCEPT ![w].cache = {}]
    /\ validated' = [validated EXCEPT ![w] =
                         [last |-> IF /\ loc[w].op = "validate"
                                      /\ result[w].success
                                      /\ ~validated[w].written
                                   THEN loc[w].lead ELSE NoLead,
                          written |-> FALSE]]
    /\ UNCHANGED <<leads, convs, now, pending, log, calls, faults, untouched, request>>

\* end of the request: the scoped session is removed, uncommitted writes
\* are rolled back, and the next request gets a new session
Teardown(w) ==
    /\ pc[w] = "idle"
    /\ pending[w] # <<>> \/ session[w] # NewSession
    /\ pending' = [pending EXCEPT ![w] = <<>>]
    /\ session' = [session EXCEPT ![w] = NewSession]
    /\ UNCHANGED <<leads, convs, now, pc, loc, result, log, calls, faults, untouched, request, validated>>

\* a lead is stored outside the service, with a region and a flag:
\* Lead(phone=..., regiao=..., elegivel=...); db.add(lead); db.commit()
AddLead(phone, r, e) ==
    /\ \A i \in 1..Len(leads) : leads[i].phone # phone
    /\ leads' = Append(leads, [NewLead(phone, now, now) EXCEPT !.regiao = r, !.elegivel = e])
    /\ UNCHANGED <<convs, now, pc, loc, pending, result, log, calls, faults, untouched, request, session, validated>>

\* the region code of a lead is written, or cleared, by another transaction.
\* That ends what validated says about the lead and is noted for the calls
\* on the lead that are in progress; what a call in progress remembers of
\* the store at its start (leads0, before) follows the write, so that it
\* differs from the store by the writes of the call only
SetRegiao(id, r) ==
    /\ id \in 1..Len(leads)
    /\ leads[id].regiao # r
    /\ leads' = [leads EXCEPT ![id].regiao = r]
    /\ untouched' = Forget(id)
    /\ validated' = [w \in Workers |->
                         [last |-> IF validated[w].last = id THEN NoLead
                                   ELSE validated[w].last,
                          written |-> \/ validated[w].written
                                      \/ pc[w] # "idle" /\ loc[w].lead = id]]
    /\ loc' = [w \in Workers |->
                  [loc[w] EXCEPT
                      !.leads0 = IF id \in 1..Len(@) THEN [@ EXCEPT ![id].regiao = r] ELSE @,
                      !.before = IF loc[w].lead = id /\ @ # NoRow
                                 THEN [@ EXCEPT !.regiao = r] ELSE @]]
    /\ UNCHANGED <<convs, now, pc, pending, result, log, calls, faults, request, session>>

\* time passes, and datetime.utcnow() reads a later instant
Tick ==
    /\ now < MaxTime
    /\ now' = now + 1
    /\ UNCHANGED <<leads, convs, pc, loc, pending, result, log, calls, faults, untouched, request, session, validated>>

Step(w) ==
    \/ RcvCreate(w)
    \/ RcvStatus(w)
    \/ RcvTriagem(w)
    \/ RcvTriagemLog(w)
    \/ RcvTouch(w)
    \/ RcvGenerate(w)
    \/ RcvSave(w)
    \/ RcvFollowup(w)
    \/ RcvFupCommit(w)
    \/ RcvFupResult(w)
    \/ ValidateCommit(w)
    \/ ValidateResult(w)
    \/ MarkCommit(w)
    \/ Ack(w)
    \/ Teardown(w)

\* calls one at a time, all made by one caller on its session (Teardown
\* gives it a fresh one); other transactions write or clear the region of a
\* lead at any time
Caller == "w1"

Next ==
    \/ \E jid \in CallKeys, text \in Texts : ReceiveBegin(Caller, jid, text)
    \/ \E id \in LeadIds : ValidateBegin(Caller, id)
    \/ \E id \in LeadIds : MarkBegin(Caller, id)
    \/ \E id \in WrittenLeads, r \in {<<>>} \cup CallRegions : SetRegiao(id, r)
    \/ Step(Caller)
    \/ Tick

Spec == Init /\ [][Next]_vars

\* concurrent requests on the contact of KPlain: the steps of the workers interleave
\* with each other and with the transactions of others: a lead is stored
\* without a region or with "RS", and the region "BA" is written
NextConc ==
    \/ \E r \in {<<>>, <<82, 83>>} : AddLead(KPlain, r, "None")
    \/ \E w \in Workers, jid \in {KPlain}, text \in Texts :
           calls < MaxConcCalls /\ ReceiveBegin(w, jid, text)
    \/ \E w \in Workers, id \in LeadIds : calls < MaxConcCalls /\ ValidateBegin(w, id)
    \/ \E w \in Workers, id \in LeadIds : calls < MaxConcCalls /\ MarkBegin(w, id)
    \/ \E id \in LeadIds : SetRegiao(id, <<66, 65>>)
    \/ \E w \in Workers : Step(w)
    \/ Tick

SpecConc == Init /\ [][NextConc]_vars

(***************************************************************************)
(* The service together with the follow-up sweep on overdue leads.         *)
(***************************************************************************)
\* an overdue test that is strict on the deadline
is_overdue_for_followup_strict(row, t) ==
    IF row.data_proximo_follow_up = NoTime THEN FALSE
    ELSE t > row.data_proximo_follow_up

\* Lead.is_overdue_for_followup at time t
is_overdue_for_followup(row, t) ==
    IF row.data_proximo_follow_up = NoTime THEN FALSE
    ELSE t >= row.data_proximo_follow_up

\* the sweep counts an attempt on an overdue lead
SweepOverdue(id) ==
    /\ id \in 1..Len(leads)
    /\ is_overdue_for_followup(leads[id], now)
    /\ leads[id].tentativas_follow_up < MaxAttempts
    /\ leads' = ApplyLeadOp(leads, IncAttempts(id, now), now)
    /\ untouched' = Forget(id)
    /\ UNCHANGED <<convs, now, pc, loc, pending, result, log, calls, faults, request, session, validated>>

NextSweep ==
    \/ Next
    \/ \E id \in LeadIds : Quiet /\ SweepOverdue(id)

SpecSweep == Init /\ [][NextSweep]_vars

(***************************************************************************)
(* LeadScreening._build_conversation_history over stored conversations.    *)
(***************************************************************************)
\* n Conversation rows of lead 1 and m rows of lead 2, in the order of their
\* insertion; row k holds the texts <<k>> and <<100 + k>>. The timestamps run
\* with the order of insertion, against it (the clock was set back, or a row
\* inserted earlier was committed later), or are all the same
StoredConversations(n, m, order) ==
    [k \in 1..(n + m) |->
        NewConversation(IF n = 0 \/ (k >= 2 /\ k <= m + 1) THEN 2 ELSE 1,
                        <<k>>, <<100 + k>>,
                        CASE order = "forward" -> k
                          [] order = "backward" -> n + m + 1 - k
                          [] OTHER -> 1)]

\* two leads in screening, with their stored conversations
InitHistory ==
    /\ \E n \in 0..MaxStoredRows, m \in 0..MaxOtherRows, order \in {"forward", "backward", "same"} :
           /\ convs = StoredConversations(n, m, order)
           /\ now = n + m
    /\ leads = <<[NewLead(KPlain, 0, 0) EXCEPT !.status = EM_TRIAGEM],
                 [NewLead(KSep, 0, 0) EXCEPT !.status = EM_TRIAGEM]>>
    /\ pc = [w \in Workers |-> "idle"]
    /\ loc = [w \in Workers |-> Idle]
    /\ pending = [w \in Workers |-> <<>>]
    /\ result = [w \in Workers |-> NoResult]
    /\ log = <<>>
    /\ calls = 0
    /\ faults = 0
    /\ untouched = [w \in Workers |-> NoWatch]
    /\ request = [w \in Workers |-> NoRequest]
    /\ session = [w \in Workers |-> NewSession]
    /\ validated = [w \in Workers |-> [last |-> NoLead, written |-> FALSE]]

\* lines 234-254: the query and the loop, or [] when the read fails
BuildHistory(w, lead_id) ==
    /\ pc[w] = "idle"
    /\ pc' = [pc EXCEPT ![w] = "done"]
    /\ \/ /\ loc' = [loc EXCEPT ![w] =
                        [Idle EXCEPT !.op = "history", !.lead = lead_id,
                                     !.history = build_conversation_history(convs, lead_id)]]
          /\ UNCHANGED faults
       \/ /\ faults < MaxFaults
          /\ faults' = faults + 1
          /\ loc' = [loc EXCEPT ![w] =
                        [Idle EXCEPT !.op = "history", !.lead = lead_id,
                                     !.history = history_on_error, !.fault = "read"]]
    /\ UNCHANGED <<leads, convs, now, pending, result, log, calls, untouched, request, session, validated>>

NextHistory ==
    \/ \E id \in LeadIds : BuildHistory(Caller, id)
    \/ Ack(Caller)

SpecHistory == InitHistory /\ [][NextHistory]_vars

(***************************************************************************)
(* RegionalValidator.get_region_status on region codes.                    *)
(***************************************************************************)
\* R S r s B A b a X, the space, the long s (U+017F) and the sharp s (U+00DF)
RegionChars == {82, 83, 114, 115, 66, 65, 98, 97, 88, 32, 383, 223}

\* None or "" (<<>>) and the codes of up to MaxCodeLen characters
RegionCodes == UNION {[1..n -> RegionChars] : n \in 0..MaxCodeLen}

\* lines 99-113
GetRegionStatus(w, code) ==
    /\ pc[w] = "idle"
    /\ pc' = [pc EXCEPT ![w] = "done"]
    /\ loc' = [loc EXCEPT ![w] =
                  [Idle EXCEPT !.op = "region_status", !.code = code,
                               !.region_status = get_region_status(code)]]
    /\ UNCHANGED <<leads, convs, now, pending, result, log, calls, faults, untouched, request, session, validated>>

NextRegion ==
    \/ \E code \in RegionCodes : GetRegionStatus(Caller, code)
    \/ Ack(Caller)

SpecRegion == Init /\ [][NextRegion]_vars

\* the store is empty, or holds the contact of KPlain that
\* mark_lead_for_response has left awaiting a response
InitStored ==
    /\ leads \in {<<>>,
                  <<[NewLead(KPlain, 0, 0) EXCEPT !.status = AGUARDANDO_RESPOSTA,
                                                  !.data_proximo_follow_up = FollowupHours]>>}
    /\ convs = <<>>
    /\ now = 0
    /\ pc = [w \in Workers |-> "idle"]
    /\ loc = [w \in Workers |-> Idle]
    /\ pending = [w \in Workers |-> <<>>]
    /\ result = [w \in Workers |-> NoResult]
    /\ log = <<>>
    /\ calls = 0
    /\ faults = 0
    /\ untouched = [w \in Workers |-> NoWatch]
    /\ request = [w \in Workers |-> NoRequest]
    /\ session = [w \in Workers |-> NewSession]
    /\ validated = [w \in Workers |-> [last |-> NoLead, written |-> FALSE]]

(***************************************************************************)
(* receive_lead_message calls on every kind of contact key.                *)
(***************************************************************************)
NextKeys ==
    \/ \E jid \in Keys, text \in Texts : ReceiveBegin(Caller, jid, text)
    \/ RcvCreate(Caller)
    \/ RcvStatus(Caller)
    \/ RcvTriagem(Caller)
    \/ RcvTriagemLog(Caller)
    \/ RcvTouch(Caller)
    \/ RcvGenerate(Caller)
    \/ RcvSave(Caller)
    \/ RcvFollowup(Caller)
    \/ RcvFupCommit(Caller)
    \/ RcvFupResult(Caller)
    \/ Ack(Caller)

SpecKeys == InitStored /\ [][NextKeys]_vars

(***************************************************************************)
(* validate_lead_eligibility calls on a lead stored with a region, made    *)
(* one after the other on the caller's session, while other transactions   *)
(* write the region.                                                       *)
(***************************************************************************)
NextValidate ==
    \/ \E r \in {<<>>} \cup Regions, e \in {"None", "True"} : AddLead(KPlain, r, e)
    \/ \E id \in LeadIds : ValidateBegin(Caller, id)
    \/ ValidateCommit(Caller)
    \/ ValidateResult(Caller)
    \/ Ack(Caller)
    \/ Teardown(Caller)
    \/ \E id \in LeadIds, r \in {<<>>} \cup CallRegions : SetRegiao(id, r)

SpecValidate == Init /\ [][NextValidate]_vars

(***************************************************************************)
(* sanitize_text on bodies around the length limit: one                    *)
(* receive_lead_message call.                                              *)
(***************************************************************************)
\* NUL, tab, newline, unit separator, space, DEL
BodyChars == {0, 9, 10, 31, 32, 127}

\* a short run of BodyChars followed by a run of "a" that brings the body
\* to the limit
LongTexts ==
    {prefix \o Rep(97, n) :
        prefix \in UNION {[1..k -> BodyChars] : k \in 0..MaxPrefixLen},
        n \in {0, MaxTextLength - 1, MaxTextLength, MaxTextLength + 1}}

NextSanitize ==
    \/ \E text \in LongTexts : ReceiveBegin(Caller, KPlain, text)
    \/ RcvCreate(Caller)
    \/ RcvStatus(Caller)
    \/ RcvTriagem(Caller)
    \/ RcvTriagemLog(Caller)
    \/ RcvTouch(Caller)
    \/ RcvGenerate(Caller)
    \/ RcvSave(Caller)
    \/ RcvFollowup(Caller)
    \/ RcvFupCommit(Caller)
    \/ RcvFupResult(Caller)

SpecSanitize == InitStored /\ [][NextSanitize]_vars

(***************************************************************************)
(* evolution_webhook (src/src/api/webhooks.py): authentication, payload    *)
(* and event checks, then the loop over the messages of the payload.       *)
(***************************************************************************)
\* "Bearer", "bearer"
Bearer == <<66, 101, 97, 114, 101, 114>>
BearerLower == <<98, 101, 97, 114, 101, 114>>

\* settings.webhook_secret
WebhookSecret == <<115>>

\* Authorization headers as the words auth_header.split() yields; <<>> is
\* an absent or empty header, <<120>> another token than the secret and
\* <<66, 97, 115, 105, 99>> the scheme "Basic"
AuthHeaders ==
    {<<>>, <<Bearer, WebhookSecret>>, <<BearerLower, WebhookSecret>>,
     <<Bearer, <<120>>>>, <<<<66, 97, 115, 105, 99>>, WebhookSecret>>, <<Bearer>>}

\* word.lower() == "bearer": str.lower() maps onto a letter of "bearer" that
\* letter and its capital only, and every character onto at least one
IsBearer(word) ==
    /\ Len(word) = Len(BearerLower)
    /\ \A i \in 1..Len(word) : word[i] \in {BearerLower[i], BearerLower[i] - 32}

\* returns <<>> for None
extract_bearer_token(auth_header) ==
    IF auth_header = <<>> THEN <<>>
    ELSE IF Len(auth_header) # 2 \/ ~IsBearer(auth_header[1]) THEN <<>>
    ELSE auth_header[2]

Events == {"messages.upsert", "connection.update"}

\* what request.get_json() yields: a falsy body, a body EvolutionWebhookPayload
\* rejects with a ValidationError, a body it accepts
Bodies == {"empty", "invalid", "valid"}

\* EvolutionMessage: a message of a contact, a self-sent message, a message
\* with an invalid remoteJid
EvolutionMessages ==
    {[remoteJid |-> KPlain, fromMe |-> FALSE, conversation |-> <<82, 7, 83>>],
     [remoteJid |-> KPlain, fromMe |-> TRUE, conversation |-> <<82, 7, 83>>],
     [remoteJid |-> KShort, fromMe |-> FALSE, conversation |-> <<>>]}

Payloads == UNION {[1..n -> EvolutionMessages] : n \in 0..MaxMessages}

Closed(req, code) == [req EXCEPT !.state = "closed", !.code = code]

\* lines 32-85: the token is checked (401), then the body: the ValueError of
\* line 58 on a falsy body is no ValidationError and reaches the handler of
\* line 133 (500), a ValidationError is answered 400. On an event other
\* than messages.upsert logger.debug of lines 79-83 is given event twice,
\* as its first argument and by keyword, and its TypeError reaches the
\* handler of line 119 (500); line 84 is not reached
WebhookBegin(w, header, body, event, messages) ==
    /\ pc[w] = "idle"
    /\ request[w].state # "open"
    /\ request[w].n < MaxRequests
    /\ LET token == extract_bearer_token(header)
           req == [NoRequest EXCEPT !.header = header, !.body = body, !.event = event,
                                    !.messages = messages, !.leads0 = leads,
                                    !.convs0 = convs, !.n = request[w].n + 1]
       IN request' = [request EXCEPT ![w] =
              IF token = <<>> \/ token # WebhookSecret THEN Closed(req, 401)
              ELSE IF body = "empty" THEN Closed(req, 500)
              ELSE IF body = "invalid" THEN Closed(req, 400)
              ELSE IF event # "messages.upsert" THEN Closed(req, 500)
              ELSE [req EXCEPT !.state = "open"]]
    /\ UNCHANGED <<leads, convs, now, pc, loc, pending, result, log, calls, faults, untouched, session, validated>>

\* lines 88-90: a self-sent message is passed over
WebhookSkip(w) ==
    /\ pc[w] = "idle"
    /\ request[w].state = "open"
    /\ request[w].pos < Len(request[w].messages)
    /\ request[w].messages[request[w].pos + 1].fromMe
    /\ request' = [request EXCEPT ![w].pos = @ + 1]
    /\ UNCHANGED <<leads, convs, now, pc, loc, pending, result, log, calls, faults, untouched, session, validated>>

\* lines 93-102 and 119-131: for the next message not sent by the service
\* log_webhook_received passes event to logger.info twice (logging.py lines
\* 132-138); the TypeError ends the loop in the handler of line 119, which
\* answers 500. Lines 105-115, with the guard of line 106 and the call of
\* receive_lead_message of line 108, are not reached, nor are the messages
\* that follow
WebhookDispatch(w) ==
    /\ pc[w] = "idle"
    /\ request[w].state = "open"
    /\ request[w].pos < Len(request[w].messages)
    /\ ~request[w].messages[request[w].pos + 1].fromMe
    /\ request' = [request EXCEPT ![w] = Closed(@, 500)]
    /\ UNCHANGED <<leads, convs, now, pc, loc, pending, result, log, calls, faults, untouched, session, validated>>

\* line 117: every message of the payload was self-sent, or there was none
WebhookEnd(w) ==
    /\ pc[w] = "idle"
    /\ request[w].state = "open"
    /\ request[w].pos = Len(request[w].messages)
    /\ request' = [request EXCEPT ![w] = Closed(@, 200)]
    /\ UNCHANGED <<leads, convs, now, pc, loc, pending, result, log, calls, faults, untouched, session, validated>>

NextWebhook ==
    \/ \E header \in AuthHeaders, body \in Bodies, event \in Events, messages \in Payloads :
           WebhookBegin(Caller, header, body, event, messages)
    \/ WebhookSkip(Caller)
    \/ WebhookDispatch(Caller)
    \/ WebhookEnd(Caller)

SpecWebhook == InitStored /\ [][NextWebhook]_vars

(***************************************************************************)
(* Properties.                                                             *)
(***************************************************************************)
Done(w) == pc[w] = "done"

ReceiveDone(w) == Done(w) /\ loc[w].op = "receive"

\* the digits of the user part of a contact key
Digits(key) == StripNonDigits(BeforeAt(key))

RowsWithPhone(phone) == {i \in 1..Len(leads) : leads[i].phone = phone}

\* C1: under any interleaving of receive_lead_message calls with the same
\* contact key, the store never holds two Lead rows with that key, and no
\* call fails because the other one created the lead first.
C1_OneLeadNoConflict ==
    /\ \A i, j \in 1..Len(leads) : leads[i].phone = leads[j].phone => i = j
    /\ \A w \in Workers : ~(ReceiveDone(w) /\ loc[w].fault = "integrity")

\* C2: a receive_lead_message call with an invalid contact key (empty, fewer
\* than 10 or more than 15 digits, all zeros) returns the invalid-contact
\* failure at once and leaves every Lead and Conversation row as it was.
\* The digits of a key are the characters that the stripping of line 24
\* keeps, and a zero is a digit of value 0, the first of its run of ten,
\* in whatever script.
C2_InvalidContactPersistsNothing ==
    \A w \in Workers :
        LET d == Digits(loc[w].jid)
            zero(c) == \E r \in DigitRanges : c \in r[1]..r[2] /\ (c - r[1]) % 10 = 0
            invalid == \/ loc[w].jid = <<>>
                       \/ Len(d) < 10
                       \/ Len(d) > 15
                       \/ \A i \in 1..Len(d) : zero(d[i])
        IN
        (loc[w].op = "receive" /\ invalid) =>
            /\ Done(w)
            /\ ~result[w].success
            /\ result[w].error = "invalid_phone"
            /\ leads = loc[w].leads0
            /\ convs = loc[w].convs0

\* C3: after a successful receive_lead_message for a valid contact key there
\* is exactly one Lead row whose stored phone is the digits-only form of the
\* key, and keys with the same digits resolve to that single row.
C3_CanonicalPhoneOneLead ==
    \A w \in Workers :
        (ReceiveDone(w) /\ result[w].success) =>
            /\ Cardinality(RowsWithPhone(Digits(loc[w].jid))) = 1
            /\ Cardinality({i \in 1..Len(leads) :
                              Digits(leads[i].phone) = Digits(loc[w].jid)}) = 1

\* C4: receive_lead_message moves a lead out of NOVO to EM_TRIAGEM only, and
\* once a call for a valid contact key has returned, with success or with a
\* failure, the lead of that key is not in NOVO.
C4_NeverLeftNew ==
    \A w \in Workers :
        loc[w].op = "receive" =>
            /\ \A k \in 1..Len(pending[w]) :
                   pending[w][k].op = "set_status" =>
                       pending[w][k].s = EM_TRIAGEM /\ loc[w].old = NOVO
            /\ (Done(w) /\ loc[w].phone # <<>>) =>
                   \A i \in RowsWithPhone(loc[w].phone) : leads[i].status # NOVO

\* C5: when a receive_lead_message call returns success and the lead is in
\* AGUARDANDO_RESPOSTA at that point, its stored data_proximo_follow_up is
\* an instant of the call plus 2 hours.
C5_FollowupTwoHours ==
    \A w \in Workers :
        (ReceiveDone(w) /\ result[w].success
         /\ leads[loc[w].lead].status = AGUARDANDO_RESPOSTA) =>
            /\ leads[loc[w].lead].data_proximo_follow_up >= loc[w].start + 2
            /\ leads[loc[w].lead].data_proximo_follow_up <= now + 2

C5_Witness ==
    \E w \in Workers :
        /\ ReceiveDone(w)
        /\ result[w].success
        /\ leads[loc[w].lead].status = AGUARDANDO_RESPOSTA
        /\ loc[w].start > 0
        /\ now > loc[w].start

\* C6: when generation fails during receive_lead_message for an existing
\* lead, the call returns a failure, adds no Conversation row, and the
\* stored row of the lead stays what it was before the history was built,
\* also after later operations commit on the same session.
C6_GenerationFailureLeavesLead ==
    /\ \A w \in Workers :
           (ReceiveDone(w) /\ loc[w].fault = "generation" /\ ~loc[w].created) =>
               /\ ~result[w].success
               /\ convs = loc[w].convs0
               /\ leads[loc[w].lead] = loc[w].before
    /\ \A w \in Workers :
           (untouched[w].lead # NoLead /\ ~untouched[w].created) =>
               leads[untouched[w].lead] = untouched[w].row

\* C7: when generation fails on the first message of an unseen contact, the
\* call returns a failure, exactly one Lead row of the contact exists, in
\* EM_TRIAGEM, and no Conversation row exists for it.
C7_NewContactGenerationFailure ==
    \A w \in Workers :
        (ReceiveDone(w) /\ loc[w].fault = "generation" /\ loc[w].created) =>
            /\ ~result[w].success
            /\ RowsWithPhone(loc[w].phone) = {loc[w].lead}
            /\ leads[loc[w].lead].status = EM_TRIAGEM
            /\ ConvsOf(convs, loc[w].lead) = <<>>

C7_Witness ==
    \E w \in Workers :
        /\ ReceiveDone(w)
        /\ loc[w].fault = "generation"
        /\ loc[w].created
        /\ Len(leads) = 2

\* C8: a successful receive_lead_message adds exactly one Conversation row,
\* of the resolved lead, with the sanitized inbound text and the reply, at
\* most one Lead row, at most one status transition and at most one
\* follow-up write; a failed call adds no Conversation row.
C8_SideEffects ==
    \A w \in Workers :
        ReceiveDone(w) =>
            IF result[w].success
            THEN /\ Len(convs) = Len(loc[w].convs0) + 1
                 /\ SubSeq(convs, 1, Len(loc[w].convs0)) = loc[w].convs0
                 /\ convs[Len(convs)].lead_id = loc[w].lead
                 /\ convs[Len(convs)].mensagem_entrada = sanitize_text(loc[w].raw, 5000)
                 /\ convs[Len(convs)].mensagem_saida = result[w].response
                 /\ Len(leads) <= Len(loc[w].leads0) + 1
                 /\ loc[w].nTrans <= 1
                 /\ loc[w].nFup <= 1
            ELSE convs = loc[w].convs0

\* C9: receive_lead_message never partially commits: when it returns a
\* failure, whatever the failure point, no Conversation row of the call is
\* stored and the lead's row is what lookup and creation left.
C9_NoPartialCommit ==
    \A w \in Workers :
        (ReceiveDone(w) /\ ~result[w].success) =>
            /\ convs = loc[w].convs0
            /\ loc[w].before # NoRow => leads[loc[w].lead] = loc[w].before

\* C10: every failure inside receive_lead_message or
\* validate_lead_eligibility reaches the caller as a returned result with
\* success false and an error, never as a raised exception or a success:
\* the call that ends after a statement failed returns the error of that
\* statement; the call that ends on a session whose flush or commit has
\* failed returns a failure, also when the exception of the flush was caught
\* on the way; a contact without a valid number and a reply that was not
\* generated end in a failure too.
C10_FailuresAreResults ==
    \A w \in Workers :
        (Done(w) /\ loc[w].op \in {"receive", "validate"}) =>
            /\ ~result[w].raised
            /\ loc[w].fault # "" =>
                   ~result[w].success /\ result[w].error = loc[w].fault
            /\ session[w].inactive =>
                   ~result[w].success /\ result[w].error # ""
            /\ (loc[w].op = "receive" /\ extrair_telefone_whatsapp(loc[w].jid) = <<>>) =>
                   ~result[w].success /\ result[w].error = "invalid_phone"
            /\ (loc[w].op = "receive" /\ loc[w].reply = <<>>) =>
                   ~result[w].success /\ result[w].error # ""

\* the flush before the history query failed, the history was taken as
\* empty, and the call ended in the failure of line 93 on the inactive
\* session
C10_Witness ==
    \E w \in Workers :
        /\ Done(w)
        /\ loc[w].op = "receive"
        /\ loc[w].read_failed
        /\ session[w].inactive
        /\ ~result[w].success
        /\ ~result[w].raised
        /\ result[w].error = "pending_rollback"

ValidateDone(w) == Done(w) /\ loc[w].op = "validate"

\* the region code matches a member of the set, ignoring letter case
MatchesIgnoringCase(code, set) ==
    \E r \in set : UpperStr(r) = UpperStr(code)

\* C11: validate_lead_eligibility on a lead with a region code stores
\* elegivel true and AGUARDANDO_RESPOSTA exactly when the code matches,
\* ignoring case, a configured eligible region, and elegivel false and
\* NAO_ELEGIVEL otherwise; the returned boolean is the stored flag and is
\* RegionalValidator.is_eligible of the same code. The code is the one the
\* call read from the lead, which is the stored one unless another
\* transaction wrote the region during the call.
C11_EligibilityOutcome ==
    \A w \in Workers :
        (ValidateDone(w) /\ result[w].success) =>
            LET row == leads[loc[w].lead]
                code == loc[w].region
                ok == MatchesIgnoringCase(code, eligible_regions)
            IN /\ code # <<>>
               /\ ~validated[w].written => row.regiao = code
               /\ row.elegivel = (IF ok THEN "True" ELSE "False")
               /\ row.status = (IF ok THEN AGUARDANDO_RESPOSTA ELSE NAO_ELEGIVEL)
               /\ result[w].is_eligible = ok
               /\ result[w].is_eligible = validator_is_eligible(code)

\* a second call in a row on a lead that an earlier call found eligible,
\* after its region was written to the interest-only BA
C11_Witness ==
    \E w \in Workers :
        /\ ValidateDone(w)
        /\ result[w].success
        /\ ~validated[w].written
        /\ leads[loc[w].lead].regiao = <<66, 65>>
        /\ leads[loc[w].lead].elegivel = "False"
        /\ leads[loc[w].lead].status = NAO_ELEGIVEL
        /\ loc[w].before.elegivel = "True"
        /\ loc[w].before.status = AGUARDANDO_RESPOSTA

\* the failures of a query: the statement fails, the flush that precedes it
\* fails, or the session is inactive after a failed flush
QueryFailures == {"read", "flush", "pending_rollback"}

\* C12: validate_lead_eligibility returns the not-found failure when no lead
\* has the id and the region-missing failure when the lead's region is
\* absent or empty (the failure of the query itself when the lead cannot be
\* read); in both cases no Lead row changes and no transition log entry is
\* emitted. The region is the one the call finds on the lead: loc[w].region
\* holds the code that line 149 read, and none when it read none.
C12_NotFoundOrNoRegion ==
    \A w \in Workers :
        loc[w].op = "validate" =>
            LET id == loc[w].lead
                absent == FindById(loc[w].leads0, id) = NoLead
            IN (absent \/ loc[w].region = <<>>) =>
                   /\ Done(w)
                   /\ ~result[w].success
                   /\ \/ result[w].error = (IF absent THEN "not_found" ELSE "no_region")
                      \/ result[w].error \in QueryFailures
                   /\ leads = loc[w].leads0
                   /\ Len(log) = loc[w].log0

C12_Witness ==
    \E w \in Workers :
        /\ ValidateDone(w)
        /\ result[w].error = "no_region"
        /\ Len(log) > 0
        /\ \E i \in 1..Len(leads) : leads[i].regiao # <<>>

\* status, eligibility flag and follow-up fields of a row
StatusFields(row) ==
    <<row.status, row.elegivel, row.tentativas_follow_up,
      row.data_ultimo_follow_up, row.data_proximo_follow_up>>

\* C13: validate_lead_eligibility is idempotent in effect: a successful
\* call that follows a successful call on the same lead, the region not
\* written in between, leaves status, elegivel and the follow-up fields as
\* the first call left them, and every call that evaluates a region emits
\* exactly one transition log entry.
C13_ValidateIdempotent ==
    \A w \in Workers :
        (ValidateDone(w) /\ loc[w].region # <<>>) =>
            /\ Len(log) = loc[w].log0 + 1
            /\ log[Len(log)].lead_id = loc[w].lead
            /\ (result[w].success /\ validated[w].last = loc[w].lead) =>
                   /\ StatusFields(leads[loc[w].lead]) = StatusFields(loc[w].before)
                   /\ leads[loc[w].lead].regiao = loc[w].before.regiao

\* the second of two successful calls in a row, the first of which moved
\* the lead to another status
C13_Witness ==
    \E w \in Workers :
        /\ ValidateDone(w)
        /\ result[w].success
        /\ validated[w].last = loc[w].lead
        /\ loc[w].log0 > 0
        /\ Len(log) = loc[w].log0 + 1
        /\ log[loc[w].log0].lead_id = loc[w].lead
        /\ log[loc[w].log0].old_status # log[loc[w].log0].new_status
        /\ log[Len(log)].old_status = log[loc[w].log0].new_status
        /\ log[Len(log)].new_status = log[loc[w].log0].new_status

\* C14: for a lead with n stored Conversation rows, of distinct timestamps,
\* the history is made of the min(n, 10) rows with the latest timestamps,
\* oldest of them first, as 2 * min(n, 10) entries, user (inbound text) then
\* assistant (outbound text) for each row; with 15 rows these are rows
\* 6..15 in the order of their timestamps.
C14_MostRecentTen ==
    \A w \in Workers :
        (/\ Done(w) /\ loc[w].op = "history" /\ loc[w].fault = ""
         /\ \A i, j \in 1..Len(convs) :
                convs[i].lead_id = loc[w].lead /\ convs[j].lead_id = loc[w].lead
                /\ convs[i].timestamp = convs[j].timestamp => i = j) =>
            LET rows == OrderByTimestamp(ConvsOf(convs, loc[w].lead))
                n == Len(rows)
                k == IF n < 10 THEN n ELSE 10
                h == loc[w].history
            IN /\ Len(h) = 2 * k
               /\ \A j \in 1..k :
                      /\ h[2 * j - 1] = [role |-> "user",
                                         content |-> rows[n - k + j].mensagem_entrada]
                      /\ h[2 * j] = [role |-> "assistant",
                                     content |-> rows[n - k + j].mensagem_saida]

\* the character in its other letter cases: its capital, and for an ASCII
\* capital its small letter
OtherCases(x) ==
    {x} \cup (IF Len(Upper(x)) = 1 THEN {Upper(x)[1]} ELSE {})
        \cup (IF x >= 65 /\ x <= 90 THEN {x + 32} ELSE {})

\* the code with the case of any of its letters changed
Recased(code) ==
    {c \in [1..Len(code) -> UNION {OtherCases(x) : x \in RegionChars}] :
        \A i \in 1..Len(code) : c[i] \in OtherCases(code[i])}

\* C15: get_region_status is a function of the code and the two configured
\* sets: unknown for an absent or empty code, eligible when the code matches
\* an eligible region ignoring case, interest when it matches only an
\* interest region ignoring case, unknown otherwise; changing the letter
\* case of the code does not change the result.
C15_Classify ==
    \A w \in Workers :
        (Done(w) /\ loc[w].op = "region_status") =>
            LET code == loc[w].code
                st == loc[w].region_status
            IN /\ st = (IF code = <<>> THEN "unknown"
                        ELSE IF MatchesIgnoringCase(code, eligible_regions) THEN "eligible"
                        ELSE IF MatchesIgnoringCase(code, interest_regions) THEN "interest"
                        ELSE "unknown")
               /\ \A c \in Recased(code) : get_region_status(c) = st

C15_Witness ==
    \E w \in Workers :
        /\ Done(w)
        /\ loc[w].op = "region_status"
        /\ loc[w].code = <<114, 83>>
        /\ loc[w].region_status = "eligible"

\* the first message of a contact has been processed with success
FirstMessageDone(w) == ReceiveDone(w) /\ result[w].success /\ loc[w].created

\* C16: after the first inbound message of a new contact has been
\* processed, the lead's data_proximo_follow_up is set.
C16_FirstMessageSetsFollowup ==
    \A w \in Workers :
        FirstMessageDone(w) =>
            leads[loc[w].lead].data_proximo_follow_up # NoTime

\* C17: after the first message of a new contact whose text names an
\* eligible state, the stored lead has the region code of that state ("RS")
\* and is in EM_TRIAGEM.
C17_FirstMessageSetsRegion ==
    \A w \in Workers :
        (FirstMessageDone(w) /\ loc[w].text \in eligible_regions) =>
            /\ leads[loc[w].lead].regiao = loc[w].text
            /\ leads[loc[w].lead].status = EM_TRIAGEM

\* C18: concurrent operations on one lead lose no status update: the stored
\* status and elegivel are those of some serial order of the operations. In
\* every serial order a lead whose eligibility has been evaluated is in the
\* status an evaluation or mark_lead_for_response stored (receive_lead_message
\* writes the status of a NOVO lead only).
C18_NoLostStatusUpdate ==
    \A i \in 1..Len(leads) :
        leads[i].elegivel # "None" =>
            leads[i].status \in {AGUARDANDO_RESPOSTA, NAO_ELEGIVEL}

\* C19: no operation of the service (receive_lead_message,
\* validate_lead_eligibility, mark_lead_for_response) changes the status of
\* a lead that is in AGENDADO, NAO_ELEGIVEL or INATIVO.
C19_TerminalStatusKept ==
    \A w \in Workers :
        Done(w) =>
            \A i \in 1..Len(loc[w].leads0) :
                loc[w].leads0[i].status \in {AGENDADO, NAO_ELEGIVEL, INATIVO} =>
                    leads[i].status = loc[w].leads0[i].status

\* C20: the status of a lead changes through two paths only: the advance
\* from NOVO to EM_TRIAGEM made by receive_lead_message, and the
\* AGUARDANDO_RESPOSTA / NAO_ELEGIVEL outcome of validate_lead_eligibility.
C20_TwoStatusPaths ==
    \A w \in Workers :
        Done(w) =>
            \A i \in 1..Len(loc[w].leads0) :
                leads[i].status # loc[w].leads0[i].status =>
                    \/ /\ loc[w].op = "receive"
                       /\ loc[w].leads0[i].status = NOVO
                       /\ leads[i].status = EM_TRIAGEM
                    \/ /\ loc[w].op = "validate"
                       /\ leads[i].status \in {AGUARDANDO_RESPOSTA, NAO_ELEGIVEL}

\* the call found the lead in the store when it began
FoundLead(w) == loc[w].lead \in 1..Len(loc[w].leads0)

\* C21: receive_lead_message on a lead whose status is not NOVO leaves the
\* status unchanged; for a lead in AGUARDANDO_RESPOSTA a successful call
\* re-arms the follow-up deadline and the status stays AGUARDANDO_RESPOSTA.
C21_StatusKeptUnlessNew ==
    \A w \in Workers :
        (ReceiveDone(w) /\ FoundLead(w)
         /\ loc[w].leads0[loc[w].lead].status # NOVO) =>
            LET old == loc[w].leads0[loc[w].lead]
                row == leads[loc[w].lead]
            IN /\ row.status = old.status
               /\ (result[w].success /\ old.status = AGUARDANDO_RESPOSTA) =>
                      /\ row.data_proximo_follow_up >= loc[w].start + 2
                      /\ row.data_proximo_follow_up <= now + 2

C21_Witness ==
    \E w \in Workers :
        /\ ReceiveDone(w)
        /\ FoundLead(w)
        /\ result[w].success
        /\ loc[w].leads0[loc[w].lead].status = AGUARDANDO_RESPOSTA
        /\ loc[w].leads0[loc[w].lead].data_proximo_follow_up # NoTime
        /\ leads[loc[w].lead].data_proximo_follow_up
               > loc[w].leads0[loc[w].lead].data_proximo_follow_up

\* C22: the follow-up write of receive_lead_message overwrites the previous
\* data_proximo_follow_up and leaves tentativas_follow_up and
\* data_ultimo_follow_up unchanged; for a lead in any status other than
\* AGUARDANDO_RESPOSTA the call leaves data_proximo_follow_up unchanged too.
C22_FollowupWriteFrame ==
    \A w \in Workers :
        (ReceiveDone(w) /\ FoundLead(w)) =>
            LET old == loc[w].leads0[loc[w].lead]
                row == leads[loc[w].lead]
            IN /\ row.tentativas_follow_up = old.tentativas_follow_up
               /\ row.data_ultimo_follow_up = old.data_ultimo_follow_up
               /\ old.status # AGUARDANDO_RESPOSTA =>
                      row.data_proximo_follow_up = old.data_proximo_follow_up
               /\ (result[w].success /\ old.status = AGUARDANDO_RESPOSTA) =>
                      /\ row.data_proximo_follow_up >= loc[w].start + 2
                      /\ row.data_proximo_follow_up <= now + 2

C22_Witness ==
    \E w \in Workers :
        /\ ReceiveDone(w)
        /\ FoundLead(w)
        /\ result[w].success
        /\ loc[w].leads0[loc[w].lead].status = AGUARDANDO_RESPOSTA
        /\ loc[w].leads0[loc[w].lead].tentativas_follow_up > 0
        /\ loc[w].leads0[loc[w].lead].data_proximo_follow_up # NoTime
        /\ leads[loc[w].lead].data_proximo_follow_up
               # loc[w].leads0[loc[w].lead].data_proximo_follow_up

\* C23: every receive_lead_message call for a valid contact key, whatever
\* the status of the lead and whether or not generation succeeds, leaves the
\* stored data_ultima_interacao of the lead at or after the start of the call.
C23_LastInteractionRefreshed ==
    \A w \in Workers :
        (ReceiveDone(w) /\ loc[w].phone # <<>> /\ loc[w].lead # NoLead) =>
            leads[loc[w].lead].data_ultima_interacao >= loc[w].start

\* C24: every committed status change has a transition log entry with the
\* lead id, the old and the new status, and no entry is emitted for a status
\* change that was not committed: a call has logged as many entries as it
\* has committed status writes, and its entry describes the stored change.
C24_LogMatchesCommits ==
    \A w \in Workers :
        (Done(w) /\ loc[w].op \in {"receive", "validate", "mark"}) =>
            /\ Len(log) = loc[w].log0 + loc[w].nTrans
            /\ loc[w].nTrans > 0 =>
                   /\ log[Len(log)].lead_id = loc[w].lead
                   /\ log[Len(log)].old_status = loc[w].old
                   /\ log[Len(log)].new_status = leads[loc[w].lead].status

\* C25: when reading the stored conversations fails the history is the
\* empty sequence, not an error: the enclosing receive_lead_message goes on
\* to generate with the empty history and, unless generation or a later
\* statement fails of itself, returns success with its Conversation row
\* stored. A statement that raises only because the failed read has left
\* the session inactive is no failure of its own.
C25_HistoryReadFailure ==
    \A w \in Workers :
        (loc[w].op = "receive" /\ loc[w].read_failed) =>
            /\ loc[w].history = <<>>
            /\ pc[w] # "rcv_touch"
            /\ (Done(w) /\ loc[w].fault \in {"", "pending_rollback"}) =>
                   /\ result[w].success
                   /\ Len(convs) = Len(loc[w].convs0) + 1
                   /\ convs[Len(convs)].lead_id = loc[w].lead
                   /\ convs[Len(convs)].mensagem_saida = loc[w].reply

\* the header carries the bearer scheme, in any letter case, and the secret
Authenticated(header) ==
    /\ Len(header) = 2
    /\ UpperStr(header[1]) = UpperStr(Bearer)
    /\ header[2] = WebhookSecret

\* the indices up to n of the messages not sent by the service itself
RECURSIVE NotSelfSent(_, _)
NotSelfSent(messages, n) ==
    IF n = 0 THEN <<>>
    ELSE NotSelfSent(messages, n - 1)
         \o (IF messages[n].fromMe THEN <<>> ELSE <<n>>)

\* C26: receive_lead_message runs only for a message with fromMe false of
\* an authenticated messages.upsert request; an unauthenticated request, a
\* non-message event or a payload of self-sent messages only changes no
\* Lead or Conversation row; when an authenticated messages.upsert request
\* has been answered every message of its payload has been passed, and
\* receive_lead_message has been called once for each message not sent by
\* the service.
C26_WebhookGate ==
    \A w \in Workers :
        LET req == request[w]
            due == NotSelfSent(req.messages, Len(req.messages))
        IN
        /\ loc[w].op = "receive" =>
               /\ req.state = "open"
               /\ Authenticated(req.header)
               /\ req.event = "messages.upsert"
               /\ ~req.messages[req.pos + 1].fromMe
               /\ loc[w].jid = req.messages[req.pos + 1].remoteJid
        /\ (req.state = "closed"
            /\ (\/ ~Authenticated(req.header)
                \/ req.body # "valid"
                \/ req.event # "messages.upsert"
                \/ due = <<>>)) =>
               /\ leads = req.leads0
               /\ convs = req.convs0
        /\ (req.state = "closed" /\ Authenticated(req.header)
            /\ req.body = "valid" /\ req.event = "messages.upsert") =>
               /\ req.pos = Len(req.messages)
               /\ calls = Len(due)

\* the follow-up attempt counters of the stored leads
Attempts == [i \in 1..Len(leads) |-> leads[i].tentativas_follow_up]

\* C27: in every reachable state each lead's status is one of the eight
\* values of LeadStatus and its attempt counter is not negative; no step
\* removes a lead or lowers a counter, and a step that changes a counter
\* (increment_followup_attempts) raises it by exactly one, sets
\* data_ultimo_follow_up to the current time and leaves status and
\* data_proximo_follow_up as they were.
C27_StatusAndCounter ==
    /\ [](/\ Cardinality(LeadStatus) = 8
          /\ \A i \in 1..Len(leads) :
                 /\ leads[i].status \in LeadStatus
                 /\ leads[i].tentativas_follow_up >= 0)
    /\ [][/\ Len(leads') >= Len(leads)
          /\ \A i \in 1..Len(leads) :
                 /\ Attempts'[i] >= Attempts[i]
                 /\ Attempts'[i] # Attempts[i] =>
                        /\ Attempts'[i] = Attempts[i] + 1
                        /\ leads'[i].data_ultimo_follow_up = now
                        /\ leads'[i].status = leads[i].status
                        /\ leads'[i].data_proximo_follow_up
                               = leads[i].data_proximo_follow_up]_vars

C27_Witness ==
    \E i \in 1..Len(leads) :
        /\ leads[i].tentativas_follow_up > 0
        /\ leads[i].data_ultimo_follow_up = now
        /\ leads[i].status = AGUARDANDO_RESPOSTA

\* a character sanitize_text keeps
Kept(c) == c >= 32 \/ c = 10 \/ c = 9

\* C28: the text a receive_lead_message call works with, stores as
\* mensagem_entrada and hands to the generator is the raw text without its
\* characters below 32 other than newline and tab, cut after that to its
\* first 5000 characters; an empty body gives the empty text, and
\* sanitizing the result again returns it unchanged.
C28_SanitizedText ==
    \A w \in Workers :
        (loc[w].op = "receive" /\ loc[w].phone # <<>>) =>
            LET raw == loc[w].raw
                text == loc[w].text
                kept == SelectSeq(raw, Kept)
            IN /\ Len(text) <= 5000
               /\ text = [i \in 1..(IF Len(kept) < 5000 THEN Len(kept) ELSE 5000) |-> kept[i]]
               /\ raw = <<>> => text = <<>>
               /\ sanitize_text(text, MaxTextLength) = text
               /\ \A k \in (Len(loc[w].convs0) + 1)..Len(convs) :
                      convs[k].mensagem_entrada = text

C28_Witness ==
    \E w \in Workers :
        /\ ReceiveDone(w)
        /\ result[w].success
        /\ Len(convs) = 1
        /\ Len(loc[w].raw) = 5002
        /\ loc[w].raw[1] = 0
        /\ loc[w].raw[2] = 9
        /\ Len(convs[1].mensagem_entrada) = 5000
        /\ convs[1].mensagem_entrada[1] = 9

MarkDone(w) == Done(w) /\ loc[w].op = "mark"

\* C29: mark_lead_for_response on a stored lead, whatever its status,
\* returns true after one commit that sets status to AGUARDANDO_RESPOSTA
\* and data_proximo_follow_up to the time of the call plus 2 hours and
\* leaves elegivel and tentativas_follow_up as they were; for an unknown
\* lead id, or when the query or the commit fails, it returns false and the
\* stored leads are those of before the call.
C29_MarkForResponse ==
    \A w \in Workers :
        MarkDone(w) =>
            LET id == loc[w].lead
                absent == FindById(loc[w].leads0, id) = NoLead
            IN /\ absent => ~result[w].success
               /\ ~result[w].success =>
                      /\ leads = loc[w].leads0
                      /\ loc[w].nTrans = 0
                      /\ absent \/ result[w].error \in {"storage"} \cup QueryFailures
               /\ result[w].success =>
                      /\ loc[w].nTrans = 1
                      /\ Len(leads) = Len(loc[w].leads0)
                      /\ leads[id].status = AGUARDANDO_RESPOSTA
                      /\ leads[id].data_proximo_follow_up = loc[w].start + 2
                      /\ leads[id].elegivel = loc[w].leads0[id].elegivel
                      /\ leads[id].tentativas_follow_up
                             = loc[w].leads0[id].tentativas_follow_up
                      /\ \A i \in 1..Len(leads) :
                             i # id => StatusFields(leads[i]) = StatusFields(loc[w].leads0[i])

C29_Witness ==
    \E w \in Workers :
        /\ MarkDone(w)
        /\ result[w].success
        /\ loc[w].leads0[loc[w].lead].status \in {AGENDADO, NAO_ELEGIVEL}
        /\ loc[w].leads0[loc[w].lead].elegivel # "None"
        /\ leads[loc[w].lead].status = AGUARDANDO_RESPOSTA

\* the follow-up deadlines of the stored leads
Deadlines == [i \in 1..Len(leads) |-> leads[i].data_proximo_follow_up]

\* C30: a lead without data_proximo_follow_up is not overdue, and a lead
\* with one is overdue exactly from that time on: a deadline armed with 2
\* hours by a call that read the time t makes the lead overdue at the times
\* from t + 2 on and at no earlier time. No step clears a deadline; a step
\* that changes one stores the deadline that a call has armed, 2 hours from
\* the time the call read, and a lead that is overdue stays overdue as long
\* as its deadline is not armed anew.
C30_OverdueDeadline ==
    /\ [](/\ \A i \in 1..Len(leads) :
                 is_overdue_for_followup(leads[i], now)
                     = (Deadlines[i] # NoTime /\ now >= Deadlines[i])
          /\ \A w \in Workers :
                 (MarkDone(w) /\ result[w].success) =>
                     /\ Deadlines[loc[w].lead] = loc[w].start + 2
                     /\ is_overdue_for_followup(leads[loc[w].lead], now)
                            = (now >= loc[w].start + 2))
    /\ [][\A i \in 1..Len(leads) :
              /\ Deadlines[i] # NoTime => Deadlines'[i] # NoTime
              /\ Deadlines'[i] # Deadlines[i] =>
                     /\ \E w \in Workers :
                            /\ \E k \in 1..Len(pending[w]) :
                                   pending[w][k] = SetFollowup(i, Deadlines'[i])
                            /\ \E t \in loc[w].start..now : Deadlines'[i] = t + 2
                     /\ is_overdue_for_followup(leads'[i], now')
                            = (now' >= Deadlines'[i])
              /\ (is_overdue_for_followup(leads[i], now) /\ Deadlines'[i] = Deadlines[i]) =>
                     is_overdue_for_followup(leads'[i], now')]_vars

C30_Witness ==
    \E i \in 1..Len(leads) :
        /\ Deadlines[i] # NoTime
        /\ now = Deadlines[i]
        /\ is_overdue_for_followup(leads[i], now)
        /\ leads[i].tentativas_follow_up > 0

====
